---- MODULE Spec2Model ----
(***************************************************************************)
(* Model of psx-core/src/gpu/gpu_context.rs: the Vram array, the           *)
(* accelerated render target (drawing_texture), the list of ranges that    *)
(* are resident in the render target (ranges_in_rendering) and the         *)
(* parameter decoders.                                                     *)
(*                                                                         *)
(* The bodies of Vram::write_block, Vram::read_block,                      *)
(* move_from_rendering_to_vram, move_from_vram_to_rendering,               *)
(* is_block_in_rendering, add_to_rendering_range and write_vram_block are  *)
(* kept in the source as comment blocks behind a todo!() (or an empty      *)
(* body); the operators below are translated from those comment blocks,    *)
(* which are the only statement of the algorithm in the source.  The same  *)
(* holds for read_vram_block (compiled to return zeros), fill_color, the   *)
(* branch `if textured` of draw_polygon and                                *)
(* get_semi_transparency_blending_params.                                  *)
(*                                                                         *)
(* draw_polygon, blit_to_front, GpuContext::new, the decoders and          *)
(* update_gpu_stat_from_texture_params are translated from their compiled  *)
(* bodies.  A submitted command buffer is an entry of queue; the device    *)
(* executes it after the futures it was chained to (GpuFuture::            *)
(* then_execute, join) and wait(None) returns when its fence is signalled. *)
(* What a draw writes into the render target is not modelled.  An integer  *)
(* overflow panics in a build with overflow checks and wraps in a build    *)
(* without them: both outcomes are steps of the model.                     *)
(*                                                                         *)
(* The 1024 x 512 grid is scaled to VramWidth x VramHeight; every address  *)
(* and every row flip is computed from these two names exactly where the   *)
(* source writes 1024 and 512.                                             *)
(***************************************************************************)
EXTENDS Integers, Sequences, FiniteSets, TLC

VARIABLES
    vram,                       \* Vram.data: linear array of u16
    drawing_texture,            \* render target, indexed <<x, gl_row>>, gl_row 0 = bottom
    ranges_in_rendering,        \* Vec<(Range<u32>, Range<u32>)>
    drawing_area_top_left,      \* (u32, u32)
    drawing_area_bottom_right,  \* (u32, u32)
    vram_display_area_start,    \* (u32, u32)
    fault,                      \* TRUE once an assertion or panic has aborted the process
    nops,                       \* number of calls made so far
    call,                       \* the last call: its name, arguments and return value
    gpu_stat,                   \* GpuStat.bits, a u32
    gpu_future,                 \* Option<Box<dyn GpuFuture>>: the submissions it stands for
    queue,                      \* the command buffers submitted to the device queue
    pc,                         \* "idle", or the call that is blocked on the device
    waited                      \* did the last call block on the device

vars == <<vram, drawing_texture, ranges_in_rendering, drawing_area_top_left,
          drawing_area_bottom_right,
                   vram_display_area_start, fault, nops, call,
          gpu_stat, gpu_future, queue, pc, waited>>

\* the state of the Vulkan side: status word, pending future, device queue
DeviceVars == <<gpu_stat, gpu_future, queue, pc>>

-----------------------------------------------------------------------------
(* Sizes *)

\* width of the grid (1024 in the source)
VramWidth == 3

\* height of the grid (512 in the source)
VramHeight == 2

\* Vram::new allocates 1024 * 512 * 2 elements
VramLen == VramWidth * VramHeight * 2

\* number of calls in one run
MaxOps == 3

\* pixel values used as inputs: 0x0000, 0x801F, 0x7FE0, 0x4210
Palette == <<0, 32799, 32736, 16912>>

-----------------------------------------------------------------------------
(* Integer helpers *)

Pow2(n) == 2 ^ n

RECURSIVE BitAnd(_, _)
BitAnd(a, b) ==
    IF a = 0 \/ b = 0 THEN 0
    ELSE ((a % 2) * (b % 2)) + 2 * BitAnd(a \div 2, b \div 2)

RECURSIVE BitOr(_, _)
BitOr(a, b) ==
    IF a = 0 THEN b
    ELSE IF b = 0 THEN a
    ELSE (IF (a % 2) + (b % 2) > 0 THEN 1 ELSE 0) + 2 * BitOr(a \div 2, b \div 2)

Shr(a, n) == a \div Pow2(n)

Shl16(a, n) == (a * Pow2(n)) % Pow2(16)

\* A u32 is kept as its two 16-bit halves [hi, lo]: the value hi * 2^16 + lo.
U32(hi, lo) == [hi |-> hi, lo |-> lo]

And32(a, b) == U32(BitAnd(a.hi, b.hi), BitAnd(a.lo, b.lo))

Or32(a, b) == U32(BitOr(a.hi, b.hi), BitOr(a.lo, b.lo))

\* a >> n, 0 <= n <= 16
Shr32(a, n) == U32(Shr(a.hi, n), Shr(a.lo, n) + Shl16(a.hi % Pow2(n), 16 - n))

\* a * b modulo 2^32, for b below 2^15 (in the source b is 0 or 1)
Mul32(a, b) ==
    LET low == a.lo * b.lo
    IN  U32(((a.hi * b.lo) + (a.lo * b.hi) + (low \div Pow2(16))) % Pow2(16),
            low % Pow2(16))

\* `as i32` of a u32: two's complement
AsI32(a) ==
    IF a.hi >= Pow2(15) THEN ((a.hi - Pow2(16)) * Pow2(16)) + a.lo
    ELSE (a.hi * Pow2(16)) + a.lo

\* `as f32` of an i32: exact up to 2^24 in magnitude; beyond that the nearest
\* multiple m * scale of a power of two, m < 2^24
AsF32(i) ==
    IF i >= -16777216 /\ i <= 16777216 THEN i
    ELSE IF i = (-2147483647) - 1 THEN [m |-> -8388608, scale |-> 256]
    ELSE LET mag == IF i < 0 THEN -i ELSE i
             RECURSIVE Scale(_)
             Scale(sc) == IF mag \div sc < 16777216 THEN sc ELSE Scale(2 * sc)
             sc == Scale(1)
             up == IF (mag % sc) >= sc - (mag % sc) THEN 1 ELSE 0
         IN  [m |-> (IF i < 0 THEN -1 ELSE 1) * ((mag \div sc) + up), scale |-> sc]

RECURSIVE SeqReverse(_)
SeqReverse(s) == IF s = <<>> THEN <<>> ELSE Append(SeqReverse(Tail(s)), Head(s))

RECURSIVE SeqFlatten(_)
SeqFlatten(ss) == IF ss = <<>> THEN <<>> ELSE Head(ss) \o SeqFlatten(Tail(ss))

\* slice.chunks(n): consecutive pieces of length n (the last one may be shorter)
RECURSIVE Chunks(_, _)
Chunks(s, n) ==
    IF s = <<>> THEN <<>>
    ELSE IF Len(s) <= n THEN <<s>>
    ELSE <<SubSeq(s, 1, n)>> \o Chunks(SubSeq(s, n + 1, Len(s)), n)

-----------------------------------------------------------------------------
(* Ranges: a pair (Range<u32>, Range<u32>) is [x0, x1, y0, y1], x0..x1 and y0..y1 *)

Rng(x0, x1, y0, y1) == [x0 |-> x0, x1 |-> x1, y0 |-> y0, y1 |-> y1]

\* Range::len(): 0 for an empty or inverted range
RangeLen(s, e) == IF e > s THEN e - s ELSE 0

XLen(r) == RangeLen(r.x0, r.x1)

YLen(r) == RangeLen(r.y0, r.y1)

\* Range::contains
RangeContains(s, e, v) == s <= v /\ v < e

\* the cells (x, y) a pair of ranges covers
CellsOf(r) == {<<x, y>> \in (r.x0 .. (r.x1 - 1)) \X (r.y0 .. (r.y1 - 1)) : TRUE}

-----------------------------------------------------------------------------
(* Pixels *)

\* gl_pixel_to_u16(&(r, g, b, a)), each component a u8
gl_pixel_to_u16(pixel) ==
    BitOr(BitOr(BitOr(Shl16(BitAnd(pixel[4], 1), 15),
                      Shl16(Shr(pixel[3], 3), 10)),
                Shl16(Shr(pixel[2], 3), 5)),
          Shr(pixel[1], 3))

\* a 5-bit channel read back as a normalised u8: round(v * 255 / 31)
Expand5(v) == (v * 255 + 15) \div 31

\* tex.read(): a texel uploaded as U1U5U5U5Reversed, read back as (u8, u8, u8, u8)
TexelRead(p) ==
    <<Expand5(p % 32), Expand5((p \div 32) % 32), Expand5((p \div 1024) % 32),
      (p \div 32768) * 255>>

-----------------------------------------------------------------------------
(* Decoders *)

\* vertex_position_from_u32 taking the sign from bit 11 of the field
vertex_position_from_u32_bit11(position) ==
    LET x  == And32(position, U32(0, 2047))
        sx == Mul32(U32(65535, 63488), And32(Shr32(x, 11), U32(0, 1)))
        xi == AsI32(Or32(x, sx))
        y  == And32(Shr32(position, 16), U32(0, 2047))
        sy == Mul32(U32(65535, 63488), And32(Shr32(y, 11), U32(0, 1)))
        yi == AsI32(Or32(y, sy))
    IN  <<AsF32(xi), AsF32(yi)>>

\* vertex_position_from_u32(position): [x as f32, y as f32]
vertex_position_from_u32(position) ==
    LET x  == And32(position, U32(0, 2047))                               \* & 0x7ff
        sx == Mul32(U32(65535, 63488), And32(Shr32(x, 10), U32(0, 1)))    \* 0xfffff800 * bit
        xi == AsI32(Or32(x, sx))
        y  == And32(Shr32(position, 16), U32(0, 2047))
        sy == Mul32(U32(65535, 63488), And32(Shr32(y, 10), U32(0, 1)))
        yi == AsI32(Or32(y, sy))
    IN  <<AsF32(xi), AsF32(yi)>>

\* DrawingVertex::color_from_u32(color): each channel is its u8 over 255.0
color_from_u32(color) ==
    LET r == And32(color, U32(0, 255)).lo
        g == And32(Shr32(color, 8), U32(0, 255)).lo
        b == And32(Shr32(color, 16), U32(0, 255)).lo
    IN  <<[num |-> r, den |-> 255], [num |-> g, den |-> 255], [num |-> b, den |-> 255]>>

\* DrawingVertex::tex_coord_from_u32(tex_coord)
tex_coord_from_u32(tex_coord) ==
    <<And32(tex_coord, U32(0, 255)).lo, And32(Shr32(tex_coord, 8), U32(0, 255)).lo>>

\* DrawingTextureParams::default()
DefaultTextureParams ==
    [clut_base |-> <<0, 0>>, tex_page_base |-> <<0, 0>>, semi_transparency_mode |-> 0,
     tex_page_color_mode |-> 0, texture_disable |-> FALSE,
     texture_flip |-> <<FALSE, FALSE>>]

\* DrawingTextureParams::tex_page_from_gpustat(param): the params afterwards
tex_page_from_gpustat(params, param) ==
    LET x == And32(param, U32(0, 15)).lo
        y == And32(Shr32(param, 4), U32(0, 1)).lo
    IN  [params EXCEPT
            !.tex_page_base = <<x * 64, y * 256>>,
            !.semi_transparency_mode = And32(Shr32(param, 5), U32(0, 3)).lo,
            !.tex_page_color_mode = And32(Shr32(param, 7), U32(0, 3)).lo,
            !.texture_disable = (And32(Shr32(param, 11), U32(0, 1)).lo = 1)]

\* tex_page_from_u32 decoding the low half of the word
tex_page_from_u32_low(params, param) == tex_page_from_gpustat(params, param)

\* DrawingTextureParams::tex_page_from_u32(param)
tex_page_from_u32(params, param) == tex_page_from_gpustat(params, Shr32(param, 16))

\* clut_from_u32 masking x with 0x7F
clut_from_u32_mask7(params, param) ==
    LET p == Shr32(param, 16)
        x == And32(p, U32(0, 127)).lo
        y == And32(Shr32(p, 6), U32(0, 511)).lo
    IN  [params EXCEPT !.clut_base = <<x * 16, y>>]

\* DrawingTextureParams::clut_from_u32(param)
clut_from_u32(params, param) ==
    LET p == Shr32(param, 16)
        x == And32(p, U32(0, 63)).lo
        y == And32(Shr32(p, 6), U32(0, 511)).lo
    IN  [params EXCEPT !.clut_base = <<x * 16, y>>]

\* update_gpu_stat_from_texture_params clearing bit 10 as well
update_gpu_stat_from_texture_params_wide_mask(bits, texture_params) ==
    LET x == BitAnd(texture_params.tex_page_base[1] \div 64, 15)
        y == BitAnd(texture_params.tex_page_base[2] \div 256, 1)
        cleared == And32(bits, U32(65535, 31232))              \* &= !0x85FF
        b1 == Or32(cleared, U32(0, x))
        b2 == Or32(b1, U32(0, y * Pow2(4)))
        b3 == Or32(b2, U32(0, texture_params.semi_transparency_mode * Pow2(5)))
        b4 == Or32(b3, U32(0, texture_params.tex_page_color_mode * Pow2(7)))
    IN  Or32(b4, U32(0, (IF texture_params.texture_disable THEN 1 ELSE 0) * Pow2(15)))

\* GpuContext::update_gpu_stat_from_texture_params(texture_params): the
\* bits of gpu_stat afterwards
update_gpu_stat_from_texture_params(bits, texture_params) ==
    LET x == BitAnd(texture_params.tex_page_base[1] \div 64, 15)
        y == BitAnd(texture_params.tex_page_base[2] \div 256, 1)
        cleared == And32(bits, U32(65535, 32256))              \* &= !0x81FF
        b1 == Or32(cleared, U32(0, x))
        b2 == Or32(b1, U32(0, y * Pow2(4)))
        b3 == Or32(b2, U32(0, texture_params.semi_transparency_mode * Pow2(5)))
        b4 == Or32(b3, U32(0, texture_params.tex_page_color_mode * Pow2(7)))
    IN  Or32(b4, U32(0, (IF texture_params.texture_disable THEN 1 ELSE 0) * Pow2(15)))

-----------------------------------------------------------------------------
(* Vram *)

\* Vram::new: all elements 0
VramNew == [a \in 0 .. (VramLen - 1) |-> 0]

\* rows packed one after the other: a stride of the block's width
BlockAddr_packed(r, k) == (r.y0 + (k \div XLen(r))) * XLen(r) + r.x0 + (k % XLen(r))

\* the element of the array the k-th pixel (k from 0) of a block goes to:
\* current_pixel_pos starts at y * 1024 + x_range.start and advances by one
BlockAddr(r, k) == (r.y0 + (k \div XLen(r))) * VramWidth + r.x0 + (k % XLen(r))

\* the loop of write_block from pixel k on; an index past the array panics
\* with the earlier pixels already stored
RECURSIVE WriteFrom(_, _, _, _)
WriteFrom(data, r, block, k) ==
    IF k >= XLen(r) * YLen(r) THEN [data |-> data, fault |-> FALSE]
    ELSE IF BlockAddr(r, k) >= VramLen THEN [data |-> data, fault |-> TRUE]
    ELSE WriteFrom([data EXCEPT ![BlockAddr(r, k)] = block[k + 1]], r, block, k + 1)

\* write_block without the assert_eq! on the length: a short block panics in
\* next().unwrap(), a long one in the closing assert!, both after storing
write_block_unchecked(data, r, block) ==
    LET RECURSIVE From(_, _)
        From(d, k) ==
            IF k >= XLen(r) * YLen(r)
            THEN [data |-> d, fault |-> Len(block) > XLen(r) * YLen(r)]
            ELSE IF k + 1 > Len(block) \/ BlockAddr(r, k) >= VramLen
            THEN [data |-> d, fault |-> TRUE]
            ELSE From([d EXCEPT ![BlockAddr(r, k)] = block[k + 1]], k + 1)
    IN  From(data, 0)

\* Vram::write_block(block_range, block): [data, fault]
write_block(data, r, block) ==
    IF Len(block) # XLen(r) * YLen(r)
    THEN [data |-> data, fault |-> TRUE]       \* assert_eq!(block.len(), whole_size)
    ELSE WriteFrom(data, r, block, 0)

\* mapping[row_start_addr .. row_start_addr + row_size]
RowSlice(data, r, y) == [i \in 1 .. XLen(r) |-> data[y * VramWidth + r.x0 + (i - 1)]]

\* the rows of read_block in the order of the iterator
RECURSIVE ReadRows(_, _, _, _)
ReadRows(data, r, reverse, n) ==
    IF n >= YLen(r) THEN <<>>
    ELSE RowSlice(data, r, IF reverse THEN r.y1 - 1 - n ELSE r.y0 + n)
            \o ReadRows(data, r, reverse, n + 1)

\* read_block reversing the whole block, pixels included
read_block_reverse_all(data, r, reverse) ==
    IF reverse THEN SeqReverse(ReadRows(data, r, FALSE, 0))
    ELSE ReadRows(data, r, FALSE, 0)

\* Vram::read_block(block_range, reverse)
read_block(data, r, reverse) == ReadRows(data, r, reverse, 0)

-----------------------------------------------------------------------------
(* GpuContext: the render target and the ranges resident in it *)

\* to_gl_bottom(top, height) = 512 - height - top
to_gl_bottom(top, height) == VramHeight - height - top

\* the render target after GpuContext::new: cleared to 0
TextureNew == [c \in (0 .. (VramWidth - 1)) \X (0 .. (VramHeight - 1)) |-> 0]

\* blit_color of a Rect into a fresh texture and tex.read(): rows from the
\* bottom up, each texel as (u8, u8, u8, u8)
TextureReadRect(tex, left, bottom, width, height) ==
    [j \in 1 .. height |->
        [i \in 1 .. width |-> TexelRead(tex[<<left + (i - 1), bottom + (j - 1)>>])]]

\* drawing_texture.write(Rect, RawImage2d { data }): data holds the rows from
\* the bottom up
TextureWriteRect(tex, left, bottom, width, height, data) ==
    [c \in DOMAIN tex |->
        IF /\ left <= c[1] /\ c[1] < left + width
           /\ bottom <= c[2] /\ c[2] < bottom + height
        THEN data[(c[2] - bottom) * width + (c[1] - left) + 1]
        ELSE tex[c]]

\* move_from_rendering_to_vram writing nothing back
move_from_rendering_to_vram_stub(data, tex, range) == [data |-> data, fault |-> FALSE]

\* move_from_rendering_to_vram(range): [data, fault]
move_from_rendering_to_vram(data, tex, range) ==
    LET width  == range.x1 - range.x0
        height == range.y1 - range.y0
        rows   == TextureReadRect(tex, range.x0, to_gl_bottom(range.y0, height),
                                  width, height)
        flat   == SeqFlatten(SeqReverse(rows))
        pixels == [i \in 1 .. Len(flat) |-> gl_pixel_to_u16(flat[i])]
    IN  write_block(data, range, pixels)

\* move_from_vram_to_rendering(range): the render target afterwards
move_from_vram_to_rendering(data, tex, range) ==
    LET width  == XLen(range)
        height == YLen(range)
        block  == read_block(data, range, TRUE)
    IN  TextureWriteRect(tex, range.x0, to_gl_bottom(range.y0, height),
                         width, height, block)

\* the loop of is_block_in_rendering without its assert
RECURSIVE BlockInRenderingFrom_no_assert(_, _, _)
BlockInRenderingFrom_no_assert(ranges, block, i) ==
    IF i > Len(ranges) THEN "false"
    ELSE LET range == ranges[i]
             contain_start ==
                 /\ RangeContains(range.x0, range.x1, block.x0)
                 /\ RangeContains(range.y0, range.y1, block.y0)
             contain_end ==
                 /\ RangeContains(range.x0, range.x1, block.x1 - 1)
                 /\ RangeContains(range.y0, range.y1, block.y1 - 1)
         IN  IF contain_start \/ contain_end THEN "true"
             ELSE BlockInRenderingFrom_no_assert(ranges, block, i + 1)

\* the loop of is_block_in_rendering from the i-th tracked range on
RECURSIVE BlockInRenderingFrom(_, _, _)
BlockInRenderingFrom(ranges, block, i) ==
    IF i > Len(ranges) THEN "false"
    ELSE LET range == ranges[i]
             contain_start ==
                 /\ RangeContains(range.x0, range.x1, block.x0)
                 /\ RangeContains(range.y0, range.y1, block.y0)
             contain_end ==
                 /\ RangeContains(range.x0, range.x1, block.x1 - 1)
                 /\ RangeContains(range.y0, range.y1, block.y1 - 1)
         IN  IF contain_start \/ contain_end
             THEN IF contain_start /\ contain_end THEN "true" ELSE "fault"
             ELSE BlockInRenderingFrom(ranges, block, i + 1)

\* is_block_in_rendering(block_range): "true", "false", or "fault" when the
\* assert fails
is_block_in_rendering(ranges, block) == BlockInRenderingFrom(ranges, block, 1)

\* range_overlap testing only whether the top-left corner of one range lies in
\* the other
range_overlap_top_left(r1, r2) ==
    \/ /\ RangeContains(r1.x0, r1.x1, r2.x0)
       /\ RangeContains(r1.y0, r1.y1, r2.y0)
    \/ /\ RangeContains(r2.x0, r2.x1, r1.x0)
       /\ RangeContains(r2.y0, r2.y1, r1.y0)

\* range_overlap(r1, r2)
range_overlap(r1, r2) ==
    IF r1.x0 >= r2.x1 \/ r2.x0 >= r1.x1 THEN FALSE
    ELSE IF r1.y0 >= r2.y1 \/ r2.y0 >= r1.y1 THEN FALSE
    ELSE TRUE

\* retain() keeping every range
RetainedRanges_all(ranges, new_range) == ranges

\* the ranges retain() keeps / the ranges it pushes to overlapped_ranges
RetainedRanges(ranges, new_range) ==
    SelectSeq(ranges, LAMBDA range : ~range_overlap(range, new_range))

OverlappedRanges(ranges, new_range) ==
    SelectSeq(ranges, LAMBDA range : range_overlap(range, new_range))

\* for range in overlapped_ranges { move_from_rendering_to_vram(&range) }
RECURSIVE WriteBackAll(_, _, _, _)
WriteBackAll(data, tex, overlapped, i) ==
    IF i > Len(overlapped) THEN [data |-> data, fault |-> FALSE]
    ELSE CHOOSE res \in
            { IF w.fault THEN w ELSE WriteBackAll(w.data, tex, overlapped, i + 1) :
                w \in {move_from_rendering_to_vram(data, tex, overlapped[i])} } : TRUE

SeqContains(s, e) == \E i \in 1 .. Len(s) : s[i] = e

\* add_to_rendering_range once the overlapped ranges are written back (back):
\* upload the new range and push it
UploadAndPush(back, tex, ranges, new_range) ==
    IF back.fault
    THEN [vram |-> back.data, tex |-> tex,
          ranges |-> RetainedRanges(ranges, new_range), fault |-> TRUE]
    ELSE [vram |-> back.data,
          tex |-> move_from_vram_to_rendering(back.data, tex, new_range),
          ranges |-> Append(RetainedRanges(ranges, new_range), new_range),
          fault |-> FALSE]

\* add_to_rendering_range uploading the new range before the write-back
add_to_rendering_range_upload_first(data, tex, ranges, new_range) ==
    IF SeqContains(ranges, new_range)
    THEN [vram |-> data, tex |-> tex, ranges |-> ranges, fault |-> FALSE]
    ELSE CHOOSE res \in
            { [vram |-> back.data, tex |-> up,
               ranges |-> Append(RetainedRanges(ranges, new_range), new_range),
               fault |-> back.fault] :
                <<up, back>> \in
                    { <<u, WriteBackAll(data, u, OverlappedRanges(ranges, new_range), 1)>> :
                        u \in {move_from_vram_to_rendering(data, tex, new_range)} } } : TRUE

\* add_to_rendering_range without the contains() test
add_to_rendering_range_no_contains(data, tex, ranges, new_range) ==
    CHOOSE res \in
        { UploadAndPush(back, tex, ranges, new_range) :
            back \in {WriteBackAll(data, tex,
                                   OverlappedRanges(ranges, new_range), 1)} } : TRUE

\* add_to_rendering_range(new_range): [vram, tex, ranges, fault]
add_to_rendering_range(data, tex, ranges, new_range) ==
    IF SeqContains(ranges, new_range)
    THEN [vram |-> data, tex |-> tex, ranges |-> ranges, fault |-> FALSE]
    ELSE CHOOSE res \in
            { UploadAndPush(back, tex, ranges, new_range) :
                back \in {WriteBackAll(data, tex,
                                       OverlappedRanges(ranges, new_range), 1)} } : TRUE

\* the drawing_range both callers build from the drawing area
DrawingRange(top_left, bottom_right) ==
    Rng(top_left[1], bottom_right[1] + 1, top_left[2], bottom_right[2] + 1)

\* write_vram_block after add_to_rendering_range has returned a: the write
\* goes to the render target or to the array
WriteResidentOrVram(a, block_range, block) ==
    LET in == is_block_in_rendering(a.ranges, block_range)
        width    == XLen(block_range)
        height   == YLen(block_range)
        reversed == SeqFlatten(SeqReverse(Chunks(block, width)))
    IN  IF a.fault THEN a
        ELSE IF in = "fault" THEN [a EXCEPT !.fault = TRUE]
        ELSE IF in = "true"
        THEN [a EXCEPT !.tex =
                 TextureWriteRect(a.tex, block_range.x0,
                                  to_gl_bottom(block_range.y0, height),
                                  width, height, reversed)]
        ELSE CHOOSE res \in
                { [a EXCEPT !.vram = w.data, !.fault = w.fault] :
                    w \in {write_block(a.vram, block_range, block)} } : TRUE

\* write_vram_block(block_range, block): [vram, tex, ranges, fault]
write_vram_block(data, tex, ranges, top_left, bottom_right, block_range, block) ==
    IF \/ ~(block_range.x1 <= VramWidth)
       \/ ~(block_range.y1 <= VramHeight)
       \/ Len(block) # XLen(block_range) * YLen(block_range)
    THEN [vram |-> data, tex |-> tex, ranges |-> ranges, fault |-> TRUE]
    ELSE CHOOSE res \in
            { WriteResidentOrVram(a, block_range, block) :
                a \in {add_to_rendering_range(data, tex, ranges,
                                              DrawingRange(top_left, bottom_right))} } : TRUE

\* the pixels of a block_range read from the render target: the rows of
\* tex.read() reversed, flattened and converted
TextureReadBlock(tex, block_range) ==
    LET x_size == XLen(block_range)
        y_size == YLen(block_range)
        rows   == TextureReadRect(tex, block_range.x0,
                                  to_gl_bottom(block_range.y0, y_size), x_size, y_size)
        flat   == SeqFlatten(SeqReverse(rows))
    IN  [i \in 1 .. Len(flat) |-> gl_pixel_to_u16(flat[i])]

\* read_vram_block keeping the rows in the order tex.read() returns them
read_vram_block_no_rev(data, tex, ranges, block_range) ==
    LET in == is_block_in_rendering(ranges, block_range)
        flat == SeqFlatten(TextureReadRect(tex, block_range.x0,
                               to_gl_bottom(block_range.y0, YLen(block_range)),
                               XLen(block_range), YLen(block_range)))
    IN  IF ~(block_range.x1 <= VramWidth) \/ ~(block_range.y1 <= VramHeight)
        THEN [block |-> <<>>, fault |-> TRUE, waited |-> FALSE]
        ELSE IF in = "fault" THEN [block |-> <<>>, fault |-> TRUE, waited |-> FALSE]
        ELSE IF in = "true"
        THEN [block |-> [i \in 1 .. Len(flat) |-> gl_pixel_to_u16(flat[i])],
              fault |-> FALSE, waited |-> TRUE]
        ELSE [block |-> read_block(data, block_range, FALSE),
              fault |-> FALSE, waited |-> FALSE]

\* read_vram_block(block_range): [block, fault, waited]; tex.read() blocks
\* until the device has produced the texels
read_vram_block(data, tex, ranges, block_range) ==
    LET in == is_block_in_rendering(ranges, block_range)
    IN  IF ~(block_range.x1 <= VramWidth) \/ ~(block_range.y1 <= VramHeight)
        THEN [block |-> <<>>, fault |-> TRUE, waited |-> FALSE]
        ELSE IF in = "fault" THEN [block |-> <<>>, fault |-> TRUE, waited |-> FALSE]
        ELSE IF in = "true"
        THEN [block |-> TextureReadBlock(tex, block_range),
              fault |-> FALSE, waited |-> TRUE]
        ELSE [block |-> read_block(data, block_range, FALSE),
              fault |-> FALSE, waited |-> FALSE]

\* a channel c / 255.0 stored in a 5-bit channel of the render target
Quantize5(c) == ((c * 62) + 255) \div 510

\* the texel surface.clear writes for (r / 255, g / 255, b / 255, 0.0)
ClearTexel(color) ==
    Quantize5(color[1]) + (32 * Quantize5(color[2])) + (1024 * Quantize5(color[3]))

\* surface.clear(Some(&Rect)): the texels of the rect that lie on the surface
TextureClearRect(tex, left, bottom, width, height, texel) ==
    [c \in DOMAIN tex |->
        IF /\ left <= c[1] /\ c[1] < left + width
           /\ bottom <= c[2] /\ c[2] < bottom + height
        THEN texel ELSE tex[c]]

\* the part of fill_color after the two wrap tests, on the clamped
\* block_range: the set of states it can end in.  st is [vram, tex, fault].
\* to_gl_bottom(top_left.1, size.1) underflows when the rect passes the
\* bottom edge: a panic with overflow checks, and without them a bottom far
\* above the surface, so that no texel is cleared.
FillBlock(st, ranges, top_left, size, block_range, color) ==
    LET in == is_block_in_rendering(ranges, block_range)
        n  == XLen(block_range) * YLen(block_range)
        w  == write_block(st.vram, block_range,
                          [i \in 1 .. n |->
                              gl_pixel_to_u16(<<color[1], color[2], color[3], 0>>)])
    IN  IF in = "fault" THEN {[st EXCEPT !.fault = TRUE]}
        ELSE IF in = "true"
        THEN IF top_left[2] + size[2] > VramHeight
             THEN {[st EXCEPT !.fault = TRUE], st}
             ELSE {[st EXCEPT !.tex =
                       TextureClearRect(st.tex, top_left[1],
                                        to_gl_bottom(top_left[2], size[2]),
                                        size[1], size[2], ClearTexel(color))]}
        ELSE {[st EXCEPT !.vram = w.data, !.fault = w.fault]}

\* fill_color(top_left, size, color): the set of states [vram, tex, fault] it
\* can end in
RECURSIVE fill_color(_, _, _, _, _)
fill_color(st, ranges, top_left, size, color) ==
    LET x_end == top_left[1] + size[1]
        y_end == top_left[2] + size[2]
        \* if x_range.end >= 1024 { fill_color((0, y), (end - 1024 + 1, h)); end = 1023 }
        s1s == IF x_end >= VramWidth
               THEN fill_color(st, ranges, <<0, top_left[2]>>,
                               <<(x_end - VramWidth) + 1, size[2]>>, color)
               ELSE {st}
        \* if y_range.end >= 512 { fill_color((x, 0), (w, end - 512 + 1)); end = 511 }
        s2s == UNION { IF s1.fault THEN {s1}
                       ELSE IF y_end >= VramHeight
                       THEN fill_color(s1, ranges, <<top_left[1], 0>>,
                                       <<size[1], (y_end - VramHeight) + 1>>, color)
                       ELSE {s1} : s1 \in s1s }
        block_range ==
            Rng(top_left[1], IF x_end >= VramWidth THEN VramWidth - 1 ELSE x_end,
                top_left[2], IF y_end >= VramHeight THEN VramHeight - 1 ELSE y_end)
    IN  UNION { IF s2.fault THEN {s2}
                ELSE FillBlock(s2, ranges, top_left, size, block_range, color) :
                    s2 \in s2s }

\* one activation of fill_color
FillFrame(top_left, size, level, cut) ==
    [top_left |-> top_left, size |-> size, level |-> level, cut |-> cut]

\* fill_color_calls passing size.0 on to the call for the x overflow
RECURSIVE fill_color_calls_same_width(_, _, _, _)
fill_color_calls_same_width(top_left, size, level, fuel) ==
    LET x_end == top_left[1] + size[1]
        y_end == top_left[2] + size[2]
    IN  IF fuel = 0 THEN <<FillFrame(top_left, size, level, TRUE)>>
        ELSE <<FillFrame(top_left, size, level, FALSE)>>
             \o (IF x_end >= VramWidth
                 THEN fill_color_calls_same_width(<<0, top_left[2]>>,
                                                  <<size[1], size[2]>>,
                                                  level + 1, fuel - 1)
                 ELSE <<>>)
             \o (IF y_end >= VramHeight
                 THEN fill_color_calls_same_width(<<top_left[1], 0>>,
                                                  <<size[1], (y_end - VramHeight) + 1>>,
                                                  level + 1, fuel - 1)
                 ELSE <<>>)

\* the activations of fill_color one call leads to, in call order, each with
\* the depth of the recursion it runs at; an activation at which the fuel is
\* used up is marked cut and not followed further
RECURSIVE fill_color_calls(_, _, _, _)
fill_color_calls(top_left, size, level, fuel) ==
    LET x_end == top_left[1] + size[1]
        y_end == top_left[2] + size[2]
    IN  IF fuel = 0 THEN <<FillFrame(top_left, size, level, TRUE)>>
        ELSE <<FillFrame(top_left, size, level, FALSE)>>
             \o (IF x_end >= VramWidth
                 THEN fill_color_calls(<<0, top_left[2]>>,
                                       <<(x_end - VramWidth) + 1, size[2]>>,
                                       level + 1, fuel - 1)
                 ELSE <<>>)
             \o (IF y_end >= VramHeight
                 THEN fill_color_calls(<<top_left[1], 0>>,
                                       <<size[1], (y_end - VramHeight) + 1>>,
                                       level + 1, fuel - 1)
                 ELSE <<>>)

\* does add_to_rendering_range(new_range) read the render target back:
\* move_from_rendering_to_vram calls tex.read() for each overlapped range
ReadsBack(ranges, new_range) ==
    /\ ~SeqContains(ranges, new_range)
    /\ OverlappedRanges(ranges, new_range) # <<>>

\* does write_vram_block read the render target back: only through the
\* add_to_rendering_range of the drawing range, which the asserts precede
WriteReadsBack(ranges, top_left, bottom_right, block_range, block) ==
    /\ block_range.x1 <= VramWidth
    /\ block_range.y1 <= VramHeight
    /\ Len(block) = XLen(block_range) * YLen(block_range)
    /\ ReadsBack(ranges, DrawingRange(top_left, bottom_right))

-----------------------------------------------------------------------------
(* GpuContext: the branch `if textured` of draw_polygon.  It is kept in the
   source as a comment block after the submission; the compiled function
   stops at assert!(!textured) and never reaches it. *)

\* width of a texture-page column (64 in the source, 1/16 of the grid there)
TexPageWidth == 1

\* height of a texture page (256 in the source, half of the grid)
TexPageHeight == 1

\* a column / a row of the source as a column / a row of the scaled grid
ToGridX(v) == (v * TexPageWidth) \div 64

ToGridY(v) == (v * TexPageHeight) \div 256

\* texture_block: row_size = 64 * (1 << tex_page_color_mode), 256 rows
texture_block(texture_params) ==
    LET row_size == 64 * Pow2(texture_params.tex_page_color_mode)
    IN  Rng(ToGridX(texture_params.tex_page_base[1]),
            ToGridX(texture_params.tex_page_base[1] + row_size),
            ToGridY(texture_params.tex_page_base[2]),
            ToGridY(texture_params.tex_page_base[2] + 256))

\* the branch `if textured`: texture_disable is forced off unless
\* allow_texture_disable, the status word takes the texture page, and a
\* texture block that is in rendering is moved to Vram.  The tracked ranges
\* are not touched.  [bits, vram, fault, waited]
draw_polygon_textured(bits, data, tex, ranges, allow_texture_disable, texture_params) ==
    LET p   == IF ~allow_texture_disable
               THEN [texture_params EXCEPT !.texture_disable = FALSE]
               ELSE texture_params
        blk == texture_block(p)
        in  == is_block_in_rendering(ranges, blk)
        w   == move_from_rendering_to_vram(data, tex, blk)
    IN  [bits   |-> update_gpu_stat_from_texture_params(bits, p),
         vram   |-> IF in = "true" THEN w.data ELSE data,
         fault  |-> (in = "fault") \/ (in = "true" /\ w.fault),
         waited |-> (in = "true")]

-----------------------------------------------------------------------------
(* GpuContext: the blend equation of a semi-transparency mode *)

\* get_semi_transparency_blending_params with the arms of modes 1 and 2
\* exchanged
get_semi_transparency_blending_params_swapped(semi_transparecy_mode) ==
    [color |->
        CASE semi_transparecy_mode % 4 = 0 ->
                [func |-> "Addition", source |-> "SourceAlpha",
                 destination |-> "OneMinusSourceAlpha"]
          [] semi_transparecy_mode % 4 = 1 ->
                [func |-> "ReverseSubtraction", source |-> "One",
                 destination |-> "SourceAlpha"]
          [] semi_transparecy_mode % 4 = 2 ->
                [func |-> "Addition", source |-> "One",
                 destination |-> "SourceAlpha"]
          [] semi_transparecy_mode % 4 = 3 ->
                [func |-> "Addition", source |-> "SourceAlpha",
                 destination |-> "OneMinusSourceAlpha"],
     alpha |-> "AlwaysReplace",
     constant_value |-> <<1, 1, 1, 1>>]

\* get_semi_transparency_blending_params(semi_transparecy_mode), a u8: the
\* Blend it builds, matched on semi_transparecy_mode & 3
get_semi_transparency_blending_params(semi_transparecy_mode) ==
    [color |->
        CASE semi_transparecy_mode % 4 = 0 ->
                [func |-> "Addition", source |-> "SourceAlpha",
                 destination |-> "OneMinusSourceAlpha"]
          [] semi_transparecy_mode % 4 = 1 ->
                [func |-> "Addition", source |-> "One",
                 destination |-> "SourceAlpha"]
          [] semi_transparecy_mode % 4 = 2 ->
                [func |-> "ReverseSubtraction", source |-> "One",
                 destination |-> "SourceAlpha"]
          [] semi_transparecy_mode % 4 = 3 ->
                [func |-> "Addition", source |-> "SourceAlpha",
                 destination |-> "OneMinusSourceAlpha"],
     alpha |-> "AlwaysReplace",
     constant_value |-> <<1, 1, 1, 1>>]

-----------------------------------------------------------------------------
(* GpuContext: the device queue and the pending future *)

\* Some(future): after is the set of submissions (indices of queue) whose
\* completion the future stands for; sync::now() stands for none
Future(after) == [some |-> TRUE, after |-> after]

\* a command buffer handed to the queue: its commands in recorded order, the
\* submissions it was chained after, the state of the caller's future it was
\* joined with ("none", "pending", "done") and the number of its commands
\* the device has executed
Submission(cmds, after, dep) == [cmds |-> cmds, after |-> after, dep |-> dep, pos |-> 0]

\* a recorded command and its argument
Cmd(name, arg) == [name |-> name, arg |-> arg]

\* the fence of the i-th submission is signalled: all its commands are executed
Completed(q, i) == q[i].pos = Len(q[i].cmds)

\* the device has begun the i-th submission
Started(q, i) == q[i].pos > 0

\* a - b modulo 2^32
Sub32(a, b) ==
    LET borrow == IF a.lo < b.lo THEN 1 ELSE 0
    IN  U32((a.hi - b.hi - borrow) % Pow2(16), (a.lo - b.lo) % Pow2(16))

\* a + b modulo 2^32
Add32(a, b) ==
    LET carry == (a.lo + b.lo) \div Pow2(16)
    IN  U32((a.hi + b.hi + carry) % Pow2(16), (a.lo + b.lo) % Pow2(16))

\* `as f32` of a u32, as m * scale: exact (scale 1) up to 2^24; beyond that
\* the nearest multiple of a power of two with m < 2^24 (from 2^31 on a
\* multiple of 256, ties to the even m)
U32AsF32(a) ==
    IF a.hi <= 256 /\ (a.hi * Pow2(16)) + a.lo <= 16777216
    THEN [m |-> (a.hi * Pow2(16)) + a.lo, scale |-> 1]
    ELSE IF a.hi < Pow2(15) THEN AsF32((a.hi * Pow2(16)) + a.lo)
    ELSE LET m0 == (a.hi * 256) + (a.lo \div 256)
             rest == a.lo % 256
             up == IF rest > 128 \/ (rest = 128 /\ m0 % 2 = 1) THEN 1 ELSE 0
         IN  IF m0 + up = 16777216 THEN [m |-> 8388608, scale |-> 512]
             ELSE [m |-> m0 + up, scale |-> 256]

\* (last - first + 1) as f32, on u32: [fault, value].  When last < first the
\* subtraction panics in a build with overflow checks and wraps modulo 2^32
\* in a build without them; so does the addition when it passes 2^32 - 1.
ViewportExtent(first, last, overflow_checks) ==
    IF last >= first
    THEN [fault |-> FALSE, value |-> U32AsF32(U32(0, (last - first) + 1))]
    ELSE IF overflow_checks
    THEN [fault |-> TRUE, value |-> U32AsF32(U32(0, 0))]
    ELSE [fault |-> FALSE,
          value |-> U32AsF32(Add32(Sub32(U32(0, last), U32(0, first)), U32(0, 1)))]

\* the graphics pipeline built by GpuContext::new: primitive topology and
\* viewport state
PipelineNew == [topology |-> "triangle_strip", viewports |-> "dynamic"]

\* the render pass recorded by draw_polygon: viewport, pipeline and
\* draw(vertices.len(), 1, 0, 0)
RenderPass(top_left, width, height, n) ==
    Cmd("draw", [viewport |-> [origin |-> <<U32AsF32(U32(0, top_left[1])),
                                            U32AsF32(U32(0, top_left[2]))>>,
                               dimensions |-> <<width, height>>],
                 pipeline |-> PipelineNew,
                 vertex_count |-> n,
                 instance_count |-> 1])

\* None
NoFuture == [some |-> FALSE, after |-> {}]

\* draw_polygon without the assert on textured
draw_polygon_no_assert(q, future, top_left, bottom_right, n, textured, overflow_checks) ==
    LET height == ViewportExtent(top_left[2], bottom_right[2], overflow_checks)
        width == ViewportExtent(top_left[1], bottom_right[1], overflow_checks)
    IN  IF height.fault \/ width.fault
        THEN [fault |-> TRUE, queue |-> q, future |-> future, waited |-> FALSE]
        ELSE IF ~future.some
        THEN [fault |-> TRUE, queue |-> q, future |-> NoFuture, waited |-> FALSE]
        ELSE [fault  |-> FALSE,
              queue  |-> Append(q, Submission(
                             <<RenderPass(top_left, width.value, height.value, n)>>,
                             future.after, "none")),
              future |-> Future({Len(q) + 1}),
              waited |-> FALSE]

\* draw_polygon waiting for the fence of its submission
draw_polygon_waits(q, future, top_left, bottom_right, n, textured, overflow_checks) ==
    LET height == ViewportExtent(top_left[2], bottom_right[2], overflow_checks)
        width == ViewportExtent(top_left[1], bottom_right[1], overflow_checks)
    IN  IF textured \/ height.fault \/ width.fault
        THEN [fault |-> TRUE, queue |-> q, future |-> future, waited |-> FALSE]
        ELSE IF ~future.some
        THEN [fault |-> TRUE, queue |-> q, future |-> NoFuture, waited |-> FALSE]
        ELSE [fault  |-> FALSE,
              queue  |-> Append(q, Submission(
                             <<RenderPass(top_left, width.value, height.value, n)>>,
                             future.after, "none")),
              future |-> Future({Len(q) + 1}),
              waited |-> TRUE]

\* draw_polygon executing its command buffer on the queue without chaining
\* it after gpu_future
draw_polygon_unchained(q, future, top_left, bottom_right, n, textured, overflow_checks) ==
    LET height == ViewportExtent(top_left[2], bottom_right[2], overflow_checks)
        width == ViewportExtent(top_left[1], bottom_right[1], overflow_checks)
    IN  IF textured \/ height.fault \/ width.fault
        THEN [fault |-> TRUE, queue |-> q, future |-> future, waited |-> FALSE]
        ELSE IF ~future.some
        THEN [fault |-> TRUE, queue |-> q, future |-> NoFuture, waited |-> FALSE]
        ELSE [fault  |-> FALSE,
              queue  |-> Append(q, Submission(
                             <<RenderPass(top_left, width.value, height.value, n)>>,
                             {}, "none")),
              future |-> Future({Len(q) + 1}),
              waited |-> FALSE]

\* draw_polygon taking gpu_future without storing the new future
draw_polygon_keeps_none(q, future, top_left, bottom_right, n, textured, overflow_checks) ==
    LET height == ViewportExtent(top_left[2], bottom_right[2], overflow_checks)
        width == ViewportExtent(top_left[1], bottom_right[1], overflow_checks)
    IN  IF textured \/ height.fault \/ width.fault
        THEN [fault |-> TRUE, queue |-> q, future |-> future, waited |-> FALSE]
        ELSE IF ~future.some
        THEN [fault |-> TRUE, queue |-> q, future |-> NoFuture, waited |-> FALSE]
        ELSE [fault  |-> FALSE,
              queue  |-> Append(q, Submission(
                             <<RenderPass(top_left, width.value, height.value, n)>>,
                             future.after, "none")),
              future |-> NoFuture,
              waited |-> FALSE]

\* draw_polygon(vertices, _, textured, _, _) with n vertices, in a build with
\* or without overflow checks: [fault, queue, future, waited].  The render
\* pass (viewport of the drawing area, pipeline, vertex buffer, draw) is one
\* command of the buffer; the buffer is executed after the pending future,
\* which is taken out of gpu_future (a panic when it is None) and whose place
\* the new future takes.
draw_polygon(q, future, top_left, bottom_right, n, textured, overflow_checks) ==
    LET height == ViewportExtent(top_left[2], bottom_right[2], overflow_checks)
        width == ViewportExtent(top_left[1], bottom_right[1], overflow_checks)
    IN  IF textured \/ height.fault \/ width.fault   \* assert!(!textured); u32 `-`, `+`
        THEN [fault |-> TRUE, queue |-> q, future |-> future, waited |-> FALSE]
        ELSE IF ~future.some                          \* take().unwrap()
        THEN [fault |-> TRUE, queue |-> q, future |-> NoFuture, waited |-> FALSE]
        ELSE [fault  |-> FALSE,
              queue  |-> Append(q, Submission(
                             <<RenderPass(top_left, width.value, height.value, n)>>,
                             future.after, "none")),
              future |-> Future({Len(q) + 1}),
              waited |-> FALSE]

\* the source corners blit_to_front passes to blit_image, from its tuple
\* (left, top, width, height): [left, top, 0] and [width, height, 1]
BlitSource(full_vram, display_start, resolution) ==
    IF full_vram
    THEN [source_top_left |-> <<0, 0, 0>>,
          source_bottom_right |-> <<VramWidth, VramHeight, 1>>]
    ELSE [source_top_left |-> <<display_start[1], display_start[2], 0>>,
          source_bottom_right |-> <<resolution[1], resolution[2], 1>>]

\* blit_to_front executing the copy after in_future alone
blit_to_front_unchained(q, future, full_vram, dep, display_start, resolution) ==
    IF ~future.some
    THEN [fault |-> TRUE, queue |-> q, future |-> future, waited |-> FALSE]
    ELSE [fault  |-> FALSE,
          queue  |-> Append(q, Submission(
                         <<Cmd("clear_color_image", "dest_image"),
                           Cmd("blit_image",
                               BlitSource(full_vram, display_start, resolution))>>,
                         {}, dep)),
          future |-> NoFuture,
          waited |-> TRUE]

\* blit_to_front(dest_image, full_vram, in_future) up to its wait; dep is
\* the state of in_future, resolution the pair gpu_stat.horizontal_resolution(),
\* gpu_stat.vertical_resolution().  [fault, queue, future, waited]:
\* gpu_future is borrowed (a panic when it is None), then taken and joined
\* with in_future; the clear and the copy are executed after both.
blit_to_front(q, future, full_vram, dep, display_start, resolution) ==
    IF ~future.some                                   \* as_mut().unwrap()
    THEN [fault |-> TRUE, queue |-> q, future |-> future, waited |-> FALSE]
    ELSE [fault  |-> FALSE,
          queue  |-> Append(q, Submission(
                         <<Cmd("clear_color_image", "dest_image"),
                           Cmd("blit_image",
                               BlitSource(full_vram, display_start, resolution))>>,
                         future.after, dep)),
          future |-> NoFuture,
          waited |-> TRUE]

\* a wait that returns at once
wait_returns_at_once(q, i) == TRUE

\* .wait(None) on the future of the i-th submission returns once its fence
\* is signalled
wait(q, i) == Completed(q, i)

\* the device may begin the i-th submission once the futures it was chained
\* after are complete
MayStart(q, i) ==
    /\ \A j \in q[i].after : Completed(q, j)
    /\ q[i].dep # "pending"

-----------------------------------------------------------------------------
(* Inputs *)

\* every non-empty rectangle inside the grid
Regions ==
    {Rng(x0, x1, y0, y1) : <<x0, x1, y0, y1>> \in
        {q \in (0 .. VramWidth) \X (0 .. VramWidth) \X (0 .. VramHeight) \X (0 .. VramHeight) :
            q[1] < q[2] /\ q[3] < q[4]}}

\* rectangles that leave the grid: past the right edge, past the bottom edge,
\* and past the end of the array
OutRegions ==
    { Rng(VramWidth - 1, VramWidth + 1, 0, 1),
      Rng(0, VramWidth + 1, 0, VramHeight),
      Rng(0, 2, VramHeight - 1, VramHeight + 1),
      Rng(0, 1, (2 * VramHeight) - 1, (2 * VramHeight) + 1) }

\* drawing areas the registers are set to: at least two cells wide (the
\* narrower ranges are admitted through add_to_rendering_range directly)
DrawingAreas == {r \in Regions : r.x1 - r.x0 >= 2}

\* a block of n pixels whose neighbours differ
BlockOf(n, k) == [i \in 1 .. n |-> Palette[((i + k) % Len(Palette)) + 1]]

Area(r) == XLen(r) * YLen(r)

\* blocks of the right length for r
Blocks(r) == {BlockOf(Area(r), k) : k \in {0, 1}}

\* blocks one pixel too long or too short
BadBlocks(r) == {BlockOf(Area(r) + 1, 0), BlockOf(Area(r) - 1, 0)}

\* calls that break a precondition: the range leaves the grid to the right or
\* at the bottom, or the block is too long or too short
BadWrites ==
    { <<Rng(VramWidth - 1, VramWidth + 1, 0, 1), BlockOf(2, 0)>>,
      <<Rng(0, 2, VramHeight - 1, VramHeight + 1), BlockOf(4, 0)>>,
      <<Rng(0, 2, 0, 1), BlockOf(3, 0)>>,
      <<Rng(0, 2, 0, 1), BlockOf(1, 0)>> }

NoRange == Rng(0, 0, 0, 0)

Called(op, range, block, flag, ret) ==
    [op |-> op, range |-> range, block |-> block, flag |-> flag, ret |-> ret]

-----------------------------------------------------------------------------
(* The state after GpuContext::new *)

Init ==
    /\ vram = VramNew
    /\ drawing_texture = TextureNew
    /\ ranges_in_rendering = <<>>
    /\ drawing_area_top_left = <<0, 0>>
    /\ drawing_area_bottom_right = <<0, 0>>
    /\ vram_display_area_start = <<0, 0>>
    /\ fault = FALSE
    /\ nops = 0
    /\ call = Called("new", NoRange, <<>>, FALSE, <<>>)
    /\ gpu_stat = U32(0, 0)
    /\ gpu_future = Future({1})
    /\ queue = <<Submission(<<Cmd("clear_color_image", "render_image")>>, {}, "none")>>
    /\ pc = "idle"
    /\ waited = FALSE

Running == ~fault /\ nops < MaxOps /\ pc = "idle"

-----------------------------------------------------------------------------
(* Calls on GpuContext *)

\* the drawing-area registers are written by the command handlers of the gpu module
SetDrawingArea(area) ==
    /\ Running
    /\ drawing_area_top_left' = <<area.x0, area.y0>>
    /\ drawing_area_bottom_right' = <<area.x1 - 1, area.y1 - 1>>
    /\ nops' = nops + 1
    /\ call' = Called("set_drawing_area", area, <<>>, FALSE, <<>>)
    /\ waited' = FALSE
    /\ UNCHANGED <<vram, drawing_texture, ranges_in_rendering, fault,
                   vram_display_area_start>>
    /\ UNCHANGED DeviceVars

AddToRenderingRange(new_range) ==
    /\ Running
    /\ \E a \in {add_to_rendering_range(vram, drawing_texture, ranges_in_rendering,
                                       new_range)} :
           /\ vram' = a.vram
           /\ drawing_texture' = a.tex
           /\ ranges_in_rendering' = a.ranges
           /\ fault' = a.fault
    /\ nops' = nops + 1
    \* recorded with the call: was new_range tracked already (flag), and which
    \* ranges it overlapped (ret)
    /\ call' = Called("add_to_rendering_range", new_range, <<>>,
                      SeqContains(ranges_in_rendering, new_range),
                      OverlappedRanges(ranges_in_rendering, new_range))
    /\ waited' = ReadsBack(ranges_in_rendering, new_range)
    /\ UNCHANGED <<drawing_area_top_left, drawing_area_bottom_right,
                   vram_display_area_start>>
    /\ UNCHANGED DeviceVars

WriteVramBlock(block_range, block) ==
    /\ Running
    /\ \E w \in {write_vram_block(vram, drawing_texture, ranges_in_rendering,
                                 drawing_area_top_left, drawing_area_bottom_right,
                                 block_range, block)} :
           /\ vram' = w.vram
           /\ drawing_texture' = w.tex
           /\ ranges_in_rendering' = w.ranges
           /\ fault' = w.fault
    /\ nops' = nops + 1
    /\ call' = Called("write_vram_block", block_range, block, FALSE, <<>>)
    /\ waited' = WriteReadsBack(ranges_in_rendering, drawing_area_top_left,
                                drawing_area_bottom_right, block_range, block)
    /\ UNCHANGED <<drawing_area_top_left, drawing_area_bottom_right,
                   vram_display_area_start>>
    /\ UNCHANGED DeviceVars

Next ==
    \/ \E area \in DrawingAreas : SetDrawingArea(area)
    \/ \E new_range \in Regions : AddToRenderingRange(new_range)
    \/ \E block_range \in Regions :
            WriteVramBlock(block_range, BlockOf(Area(block_range), 0))
    \/ \E w \in BadWrites : WriteVramBlock(w[1], w[2])

Spec == Init /\ [][Next]_vars

-----------------------------------------------------------------------------
(* Calls on Vram alone *)

VramWriteBlock(block_range, block) ==
    /\ Running
    /\ \E w \in {write_block(vram, block_range, block)} :
           /\ vram' = w.data
           /\ fault' = w.fault
    /\ nops' = nops + 1
    /\ call' = Called("write_block", block_range, block, FALSE, <<>>)
    /\ waited' = FALSE
    /\ UNCHANGED <<drawing_texture, ranges_in_rendering, drawing_area_top_left,
                   drawing_area_bottom_right,
                   vram_display_area_start>>
    /\ UNCHANGED DeviceVars

VramReadBlock(block_range, reverse) ==
    /\ Running
    /\ nops' = nops + 1
    /\ call' = Called("read_block", block_range, <<>>, reverse,
                      read_block(vram, block_range, reverse))
    /\ waited' = FALSE
    /\ UNCHANGED <<vram, drawing_texture, ranges_in_rendering, drawing_area_top_left,
                   drawing_area_bottom_right,
                   vram_display_area_start, fault>>
    /\ UNCHANGED DeviceVars

NextVram ==
    \/ \E block_range \in Regions \cup OutRegions :
         \E block \in Blocks(block_range) \cup BadBlocks(block_range) :
            VramWriteBlock(block_range, block)
    \/ \E block_range \in Regions : \E reverse \in BOOLEAN :
            VramReadBlock(block_range, reverse)
    \/ \E w \in BadWrites \cup {<<Rng(0, 2, 0, 1), BlockOf(2, 1)>>} :
            WriteVramBlock(w[1], w[2])

SpecVram == Init /\ [][NextVram]_vars

-----------------------------------------------------------------------------
(* Calls of write_vram_block and read_vram_block *)

ReadVramBlock(block_range) ==
    /\ Running
    /\ \E r \in {read_vram_block(vram, drawing_texture, ranges_in_rendering,
                                 block_range)} :
           /\ fault' = r.fault
           /\ waited' = r.waited
           \* recorded with the call: was the block read from the render
           \* target (flag), and the pixels returned (ret)
           /\ call' = Called("read_vram_block", block_range, <<>>, r.waited, r.block)
    /\ nops' = nops + 1
    /\ UNCHANGED <<vram, drawing_texture, ranges_in_rendering, drawing_area_top_left,
                   drawing_area_bottom_right,
                   vram_display_area_start>>
    /\ UNCHANGED DeviceVars

NextBlock ==
    \/ \E area \in DrawingAreas : SetDrawingArea(area)
    \/ \E new_range \in Regions : AddToRenderingRange(new_range)
    \/ \E block_range \in Regions :
            WriteVramBlock(block_range, BlockOf(Area(block_range), 0))
    \/ \E block_range \in Regions \cup OutRegions : ReadVramBlock(block_range)

SpecBlock == Init /\ [][NextBlock]_vars

-----------------------------------------------------------------------------
(* Calls of fill_color *)

\* the fill colours (r, g, b)
FillColors == {<<255, 0, 0>>, <<0, 255, 255>>, <<7, 128, 248>>}

\* sizes (w, h) of the filled rectangle
FillSizes == (1 .. VramWidth) \X (1 .. VramHeight)

\* the ranges admitted before a fill
FillRegions ==
    {Rng(0, VramWidth, 0, VramHeight), Rng(0, 2, 0, 1), Rng(1, VramWidth, 0, 1)}

FillColor(top_left, size, color) ==
    /\ Running
    /\ \E o \in fill_color([vram |-> vram, tex |-> drawing_texture, fault |-> FALSE],
                           ranges_in_rendering, top_left, size, color) :
           /\ vram' = o.vram
           /\ drawing_texture' = o.tex
           /\ fault' = o.fault
    /\ nops' = nops + 1
    \* recorded with the call: the activations it led to (ret), followed for
    \* as many levels as the two range ends add up to
    /\ call' = Called("fill_color",
                      Rng(top_left[1], top_left[1] + size[1],
                          top_left[2], top_left[2] + size[2]),
                      color, FALSE,
                      fill_color_calls(top_left, size, 0,
                                       top_left[1] + size[1] + top_left[2] + size[2]))
    /\ waited' = FALSE
    /\ UNCHANGED <<ranges_in_rendering, drawing_area_top_left,
                   drawing_area_bottom_right,
                   vram_display_area_start>>
    /\ UNCHANGED DeviceVars

NextFill ==
    \/ \E top_left \in (0 .. (VramWidth - 1)) \X (0 .. (VramHeight - 1)) :
         \E size \in FillSizes : \E color \in FillColors :
            FillColor(top_left, size, color)
    \/ \E new_range \in FillRegions : AddToRenderingRange(new_range)

SpecFill == Init /\ [][NextFill]_vars

-----------------------------------------------------------------------------
(* Calls of draw_polygon and blit_to_front, and the device *)

\* overflow_checks: the build panics on integer overflow (debug) or wraps
DrawPolygon(n, textured, overflow_checks) ==
    /\ Running
    /\ \E d \in {draw_polygon(queue, gpu_future, drawing_area_top_left,
                              drawing_area_bottom_right, n, textured,
                              overflow_checks)} :
           /\ fault' = d.fault
           /\ queue' = d.queue
           /\ gpu_future' = d.future
           /\ waited' = d.waited
    /\ nops' = nops + 1
    /\ call' = Called("draw_polygon", NoRange, <<n>>, textured, <<>>)
    /\ UNCHANGED <<vram, drawing_texture, ranges_in_rendering, drawing_area_top_left,
                   drawing_area_bottom_right,
                   vram_display_area_start, gpu_stat, pc>>

\* blit_to_front up to the point where it blocks in wait(None)
\* resolution: what gpu_stat.horizontal_resolution() and
\* gpu_stat.vertical_resolution(), defined outside this file, return
BlitToFront(full_vram, dep, resolution) ==
    /\ Running
    /\ \E b \in {blit_to_front(queue, gpu_future, full_vram, dep,
                               vram_display_area_start, resolution)} :
           /\ fault' = b.fault
           /\ queue' = b.queue
           /\ gpu_future' = b.future
           /\ waited' = b.waited
           /\ pc' = IF b.fault THEN "idle" ELSE "blit_to_front"
    /\ nops' = nops + 1
    /\ call' = Called("blit_to_front", NoRange, resolution, full_vram, <<>>)
    /\ UNCHANGED <<vram, drawing_texture, ranges_in_rendering, drawing_area_top_left,
                   drawing_area_bottom_right,
                   vram_display_area_start, gpu_stat>>

\* wait(None) returns; gpu_future = Some(sync::now(device))
BlitReturns ==
    /\ pc = "blit_to_front"
    /\ wait(queue, Len(queue))
    /\ gpu_future' = Future({})
    /\ pc' = "idle"
    /\ UNCHANGED <<vram, drawing_texture, ranges_in_rendering, drawing_area_top_left,
                   drawing_area_bottom_right,
                   vram_display_area_start, gpu_stat, fault, nops, call, queue, waited>>

\* the device executes the next command of the i-th submission
DeviceExecutes(i) ==
    /\ ~Completed(queue, i)
    /\ Started(queue, i) \/ MayStart(queue, i)
    /\ queue' = [queue EXCEPT ![i].pos = @ + 1]
    /\ UNCHANGED <<vram, drawing_texture, ranges_in_rendering, drawing_area_top_left,
                   drawing_area_bottom_right,
                   vram_display_area_start, gpu_stat, fault, nops, call, gpu_future,
                   pc, waited>>

\* the work in_future stands for completes
DependencyCompletes(i) ==
    /\ queue[i].dep = "pending"
    /\ queue' = [queue EXCEPT ![i].dep = "done"]
    /\ UNCHANGED <<vram, drawing_texture, ranges_in_rendering, drawing_area_top_left,
                   drawing_area_bottom_right,
                   vram_display_area_start, gpu_stat, fault, nops, call, gpu_future,
                   pc, waited>>

\* the resolution of the status word between draws
GpuResolution == <<2, 1>>

\* drawing areas set between draws
GpuAreas == {Rng(0, 2, 0, 1), Rng(0, VramWidth, 0, VramHeight)}

NextGpu ==
    \/ \E area \in GpuAreas : SetDrawingArea(area)
    \/ \E n \in {3, 4} : \E textured \in BOOLEAN : \E overflow_checks \in BOOLEAN :
            DrawPolygon(n, textured, overflow_checks)
    \/ \E full_vram \in BOOLEAN : \E dep \in {"pending", "done"} :
            BlitToFront(full_vram, dep, GpuResolution)
    \/ BlitReturns
    \/ \E i \in 1 .. Len(queue) : DeviceExecutes(i)
    \/ \E i \in 1 .. Len(queue) : DependencyCompletes(i)

SpecGpu == Init /\ [][NextGpu]_vars

\* the blocks written and read between draws
GpuBlocks == {Rng(0, 1, 0, 1), Rng(0, 2, 0, 1), Rng(0, VramWidth, 0, VramHeight)}

\* every call of the bus layer and of the presentation layer, and the device
NextCalls ==
    \/ \E area \in GpuAreas : SetDrawingArea(area)
    \/ \E textured \in BOOLEAN : \E overflow_checks \in BOOLEAN :
            DrawPolygon(3, textured, overflow_checks)
    \/ \E dep \in {"pending", "done"} : BlitToFront(TRUE, dep, GpuResolution)
    \/ BlitReturns
    \/ \E i \in 1 .. Len(queue) : DeviceExecutes(i)
    \/ \E i \in 1 .. Len(queue) : DependencyCompletes(i)
    \/ \E block_range \in GpuBlocks :
            WriteVramBlock(block_range, BlockOf(Area(block_range), 0))
    \/ \E block_range \in GpuBlocks : ReadVramBlock(block_range)
    \/ \E top_left \in {<<0, 0>>, <<VramWidth - 1, 0>>} :
            FillColor(top_left, <<2, 1>>, <<255, 0, 0>>)

SpecCalls == Init /\ [][NextCalls]_vars

-----------------------------------------------------------------------------
(* Draws in every state of the drawing-area registers *)

\* the two corners are separate fields; the command handlers of the gpu
\* module write each on its own
SetDrawingAreaTopLeft(top_left) ==
    /\ Running
    /\ drawing_area_top_left' = top_left
    /\ nops' = nops + 1
    /\ call' = Called("set_drawing_area_top_left", NoRange, top_left, FALSE, <<>>)
    /\ waited' = FALSE
    /\ UNCHANGED <<vram, drawing_texture, ranges_in_rendering,
                   drawing_area_bottom_right,
                   vram_display_area_start, fault>>
    /\ UNCHANGED DeviceVars

SetDrawingAreaBottomRight(bottom_right) ==
    /\ Running
    /\ drawing_area_bottom_right' = bottom_right
    /\ nops' = nops + 1
    /\ call' = Called("set_drawing_area_bottom_right", NoRange, bottom_right, FALSE, <<>>)
    /\ waited' = FALSE
    /\ UNCHANGED <<vram, drawing_texture, ranges_in_rendering,
                   drawing_area_top_left, vram_display_area_start, fault>>
    /\ UNCHANGED DeviceVars

\* the values written to a corner
Corners == (0 .. (VramWidth - 1)) \X (0 .. (VramHeight - 1))

NextArea ==
    \/ \E top_left \in Corners : SetDrawingAreaTopLeft(top_left)
    \/ \E bottom_right \in Corners : SetDrawingAreaBottomRight(bottom_right)
    \/ \E n \in {3, 4} : \E overflow_checks \in BOOLEAN :
            DrawPolygon(n, FALSE, overflow_checks)
    \/ \E dep \in {"pending", "done"} : BlitToFront(TRUE, dep, GpuResolution)
    \/ BlitReturns
    \/ \E i \in 1 .. Len(queue) : DeviceExecutes(i)
    \/ \E i \in 1 .. Len(queue) : DependencyCompletes(i)

SpecArea == Init /\ [][NextArea]_vars

-----------------------------------------------------------------------------
(* Calls that reach the textured branch of draw_polygon *)

\* texture-page words: X page 0..2, Y page 0..1, colour mode 0..3 in bits
\* 7..8, texture disable in bit 11
TexturePages ==
    {x + (16 * y) + (128 * m) + (2048 * d) :
        x \in 0 .. 2, y \in 0 .. 1, m \in 0 .. 3, d \in 0 .. 1}

\* allow_texture_disable is written by the command handlers of the gpu module
DrawPolygonTextured(param, allow_texture_disable) ==
    /\ Running
    /\ \E p \in {tex_page_from_gpustat(DefaultTextureParams, U32(0, param))} :
         \E d \in {draw_polygon_textured(gpu_stat, vram, drawing_texture,
                                        ranges_in_rendering, allow_texture_disable, p)} :
           /\ gpu_stat' = d.bits
           /\ vram' = d.vram
           /\ fault' = d.fault
           /\ waited' = d.waited
           /\ call' = Called("draw_polygon_textured", NoRange, <<param>>,
                             allow_texture_disable, p)
    /\ nops' = nops + 1
    /\ UNCHANGED <<drawing_texture, ranges_in_rendering, drawing_area_top_left,
                   drawing_area_bottom_right,
                   vram_display_area_start, gpu_future, queue, pc>>

NextTexture ==
    \/ \E area \in GpuAreas : SetDrawingArea(area)
    \/ \E block_range \in GpuBlocks :
            WriteVramBlock(block_range, BlockOf(Area(block_range), 0))
    \/ \E param \in TexturePages : \E allow \in BOOLEAN :
            DrawPolygonTextured(param, allow)

SpecTexture == Init /\ [][NextTexture]_vars

-----------------------------------------------------------------------------
(* Calls of get_semi_transparency_blending_params *)

\* every value of the u8 argument
BlendModes == 0 .. 255

\* takes &self: no field changes
GetSemiTransparencyBlendingParams(semi_transparecy_mode) ==
    /\ Running
    /\ nops' = nops + 1
    /\ call' = Called("get_semi_transparency_blending_params", NoRange,
                      <<semi_transparecy_mode>>, FALSE,
                      get_semi_transparency_blending_params(semi_transparecy_mode))
    /\ waited' = FALSE
    /\ UNCHANGED <<vram, drawing_texture, ranges_in_rendering, drawing_area_top_left,
                   drawing_area_bottom_right,
                   vram_display_area_start, fault>>
    /\ UNCHANGED DeviceVars

NextBlend ==
    \E semi_transparecy_mode \in BlendModes :
        GetSemiTransparencyBlendingParams(semi_transparecy_mode)

SpecBlend == Init /\ [][NextBlend]_vars

-----------------------------------------------------------------------------
(* Calls on the decoders *)

\* the two's-complement encoding of a coordinate in an 11-bit field
Field11(v) == IF v < 0 THEN v + 2048 ELSE v

\* a command word: x in bits 0..10, y in bits 16..26, lo in bits 11..15 and
\* hi in bits 27..31
PositionWord(x, y, lo, hi) ==
    U32(Field11(y) + (hi * Pow2(11)), Field11(x) + (lo * Pow2(11)))

Coordinates == (-1024) .. 1023

EdgeCoordinates == {-1024, -513, -1, 0, 1, 1023}

\* values of the unused bits 11..15 and 27..31
UnusedBits == {<<0, 0>>, <<31, 31>>, <<1, 16>>}

VertexPositionFromU32(x, y, lo, hi) ==
    /\ call.op = "new"
    /\ call' = Called("vertex_position_from_u32", NoRange, <<x, y, lo, hi>>, FALSE,
                      vertex_position_from_u32(PositionWord(x, y, lo, hi)))
    /\ UNCHANGED <<vram, drawing_texture, ranges_in_rendering, drawing_area_top_left,
                   drawing_area_bottom_right,
                   vram_display_area_start, fault, nops, waited>>
    /\ UNCHANGED DeviceVars

NextDecode ==
    \/ /\ call.op = "new"
       /\ \E x \in Coordinates, y \in EdgeCoordinates, u \in UnusedBits :
            VertexPositionFromU32(x, y, u[1], u[2])
    \/ /\ call.op = "new"
       /\ \E x \in EdgeCoordinates, y \in Coordinates, u \in UnusedBits :
            VertexPositionFromU32(x, y, u[1], u[2])

SpecDecode == Init /\ [][NextDecode]_vars

-----------------------------------------------------------------------------
(* Calls on the decoders of a whole word, and on the status word *)

\* every value of a 16-bit half
Halves == 0 .. 65535

\* the other half of the word: all bits clear, all bits set
EdgeHalves == {0, 65535}

\* the low 12 bits of a texture-page word
TexPageParams == 0 .. 4095

\* values the gpu module leaves in gpu_stat.bits
StatWords == {U32(0, 0), U32(65535, 65535), U32(4096, 2048)}

\* params on which clut_from_u32 and set_texture_flip have acted, and whose
\* texture page is the last page
PresetTextureParams ==
    [clut_base |-> <<1008, 511>>, tex_page_base |-> <<960, 256>>,
     semi_transparency_mode |-> 3, tex_page_color_mode |-> 3,
     texture_disable |-> TRUE, texture_flip |-> <<TRUE, FALSE>>]

\* every decoder applied to one word
DecodeWord(word) ==
    /\ call.op = "new"
    /\ call' = Called("decode", NoRange, <<word.hi, word.lo>>, FALSE,
                      [position  |-> vertex_position_from_u32(word),
                       color     |-> color_from_u32(word),
                       tex_coord |-> tex_coord_from_u32(word),
                       from_stat |-> tex_page_from_gpustat(DefaultTextureParams, word),
                       from_word |-> tex_page_from_u32(DefaultTextureParams, word),
                       page_kept |-> tex_page_from_u32(PresetTextureParams, word),
                       clut      |-> clut_from_u32(DefaultTextureParams, word)])
    /\ UNCHANGED <<vram, drawing_texture, ranges_in_rendering, drawing_area_top_left,
                   drawing_area_bottom_right,
                   vram_display_area_start, fault, nops, waited>>
    /\ UNCHANGED DeviceVars

\* gpu_stat.bits is written by the command handlers of the gpu module
SetGpuStat(bits) ==
    /\ call.op = "new"
    /\ gpu_stat' = bits
    /\ call' = Called("set_gpu_stat", NoRange, <<bits.hi, bits.lo>>, FALSE, <<>>)
    /\ UNCHANGED <<vram, drawing_texture, ranges_in_rendering, drawing_area_top_left,
                   drawing_area_bottom_right,
                   vram_display_area_start, fault, nops, waited, gpu_future, queue, pc>>

\* update_gpu_stat_from_texture_params with the params decoded from param
UpdateGpuStatFromTextureParams(param) ==
    /\ call.op \in {"new", "set_gpu_stat"}
    /\ \E p \in {tex_page_from_gpustat(DefaultTextureParams, U32(0, param))} :
           /\ gpu_stat' = update_gpu_stat_from_texture_params(gpu_stat, p)
           /\ call' = Called("update_gpu_stat_from_texture_params", NoRange,
                             <<param>>, FALSE, p)
    /\ UNCHANGED <<vram, drawing_texture, ranges_in_rendering, drawing_area_top_left,
                   drawing_area_bottom_right,
                   vram_display_area_start, fault, nops, waited, gpu_future, queue, pc>>

NextWords ==
    \/ /\ call.op = "new"
       /\ \E hi \in Halves, lo \in EdgeHalves : DecodeWord(U32(hi, lo))
    \/ /\ call.op = "new"
       /\ \E hi \in EdgeHalves, lo \in Halves : DecodeWord(U32(hi, lo))

SpecWords == Init /\ [][NextWords]_vars

NextStat ==
    \/ /\ call.op = "new"
       /\ \E bits \in StatWords : SetGpuStat(bits)
    \/ /\ call.op \in {"new", "set_gpu_stat"}
       /\ \E param \in TexPageParams : UpdateGpuStatFromTextureParams(param)

SpecStat == Init /\ [][NextStat]_vars

-----------------------------------------------------------------------------
(* Blits of the display area *)

\* vram_display_area_start is written by the command handlers of the gpu
\* module
SetDisplayAreaStart(display_start) ==
    /\ Running
    /\ vram_display_area_start' = display_start
    /\ nops' = nops + 1
    /\ call' = Called("set_display_area_start", NoRange, display_start, FALSE, <<>>)
    /\ waited' = FALSE
    /\ UNCHANGED <<vram, drawing_texture, ranges_in_rendering, drawing_area_top_left,
                   drawing_area_bottom_right, fault>>
    /\ UNCHANGED DeviceVars

\* the resolutions of the status word
Resolutions == (1 .. VramWidth) \X (1 .. VramHeight)

NextDisplay ==
    \/ \E display_start \in Corners : SetDisplayAreaStart(display_start)
    \/ \E bits \in StatWords : SetGpuStat(bits)
    \/ DrawPolygon(3, FALSE, TRUE)
    \/ \E full_vram \in BOOLEAN : \E dep \in {"pending", "done"} :
         \E resolution \in Resolutions : BlitToFront(full_vram, dep, resolution)
    \/ BlitReturns
    \/ \E i \in 1 .. Len(queue) : DeviceExecutes(i)
    \/ \E i \in 1 .. Len(queue) : DependencyCompletes(i)

SpecDisplay == Init /\ [][NextDisplay]_vars

-----------------------------------------------------------------------------
(* Vocabulary of the properties *)

Grid == (0 .. (VramWidth - 1)) \X (0 .. (VramHeight - 1))

\* the array element and the render-target texel of the cell (x, y)
Addr(c) == c[2] * VramWidth + c[1]

Texel(c) == <<c[1], (VramHeight - 1) - c[2]>>

IntervalsDisjoint(s1, e1, s2, e2) == e1 <= s2 \/ e2 <= s1

Disjoint(a, b) ==
    \/ IntervalsDisjoint(a.x0, a.x1, b.x0, b.x1)
    \/ IntervalsDisjoint(a.y0, a.y1, b.y0, b.y1)

TrackedIn(ranges, c) == \E i \in 1 .. Len(ranges) : c \in CellsOf(ranges[i])

\* the store that is authoritative for a cell
Authority(ranges, c) == IF TrackedIn(ranges, c) THEN "target" ELSE "vram"

\* this step is a call of add_to_rendering_range(r)
AdmitStep(r) ==
    /\ call'.op = "add_to_rendering_range"
    /\ call'.range = r
    /\ nops' = nops + 1

RowsReversed(block, width) == SeqFlatten(SeqReverse(Chunks(block, width)))

-----------------------------------------------------------------------------
(* C1: whatever calls were made, every two entries of ranges_in_rendering
   are different ranges whose x-ranges or y-ranges are disjoint. *)
C1_TrackedRangesDisjoint ==
    \A i, j \in 1 .. Len(ranges_in_rendering) :
        i # j => /\ ranges_in_rendering[i] # ranges_in_rendering[j]
                 /\ Disjoint(ranges_in_rendering[i], ranges_in_rendering[j])

\* two ranges are tracked after a call that evicted a third
C1_Witness ==
    /\ call.op = "add_to_rendering_range"
    /\ Len(call.ret) >= 1
    /\ Len(ranges_in_rendering) >= 2

(* C2: when only A is tracked and add_to_rendering_range(B) is called with B
   overlapping A and B # A, afterwards exactly B is tracked and every cell of
   A outside B holds in Vram the value the render target held for it. *)
C2_OverlapEvictsToVram ==
    [][\A b \in Regions :
        (/\ AdmitStep(b)
         /\ Len(ranges_in_rendering) = 1
         /\ ranges_in_rendering[1] # b
         /\ ~Disjoint(ranges_in_rendering[1], b))
        => /\ ranges_in_rendering' = <<b>>
           /\ \A c \in CellsOf(ranges_in_rendering[1]) \ CellsOf(b) :
                vram'[Addr(c)] = drawing_texture[Texel(c)]]_vars

\* B replaced A, and a cell of A outside B holds a pixel that was written
C2_Witness ==
    /\ call.op = "add_to_rendering_range"
    /\ Len(call.ret) = 1
    /\ ranges_in_rendering = <<call.range>>
    /\ \E c \in CellsOf(call.ret[1]) \ CellsOf(call.range) : vram[Addr(c)] # 0

(* C3 as stated: add_to_rendering_range(R), R not yet tracked, changes the
   authoritative store of exactly the cells R covers. *)
C3_FlipsExactlyCovered ==
    [][\A r \in Regions :
        (AdmitStep(r) /\ ~SeqContains(ranges_in_rendering, r))
        => \A c \in Grid :
             (Authority(ranges_in_rendering', c) # Authority(ranges_in_rendering, c))
                <=> c \in CellsOf(r)]_vars

(* C3 amended: after add_to_rendering_range(R) the render target is
   authoritative for every cell of R; a cell outside R that lay in a tracked
   range overlapping R is handed back to Vram; every other cell keeps its
   store. *)
C3_AuthorityAfterAdmit ==
    [][\A r \in Regions :
        AdmitStep(r)
        => \A c \in Grid :
             Authority(ranges_in_rendering', c) =
                IF c \in CellsOf(r) THEN "target"
                ELSE IF \E i \in 1 .. Len(ranges_in_rendering) :
                          /\ ~Disjoint(ranges_in_rendering[i], r)
                          /\ c \in CellsOf(ranges_in_rendering[i])
                     THEN "vram"
                     ELSE Authority(ranges_in_rendering, c)]_vars

\* a call evicted a range with a cell outside the new range, which is now
\* untracked
C3_Witness ==
    /\ call.op = "add_to_rendering_range"
    /\ \E i \in 1 .. Len(call.ret) :
         \E c \in CellsOf(call.ret[i]) \ CellsOf(call.range) :
            ~TrackedIn(ranges_in_rendering, c)

(* C4: after add_to_rendering_range(R), each texel of R holds the value the
   render target held for it if the cell was tracked, and the value Vram held
   for it if it was not: the write-back comes before the upload. *)
C4_WriteBackBeforeUpload ==
    [][\A r \in Regions :
        AdmitStep(r)
        => \A c \in CellsOf(r) :
             drawing_texture'[Texel(c)] =
                IF TrackedIn(ranges_in_rendering, c) THEN drawing_texture[Texel(c)]
                ELSE vram[Addr(c)]]_vars

\* a call evicted a range and a texel of the new range still holds a pixel
\* that Vram held only after the write-back
C4_Witness ==
    /\ call.op = "add_to_rendering_range"
    /\ ~call.flag
    /\ \E i \in 1 .. Len(call.ret) :
         \E c \in CellsOf(call.ret[i]) \cap CellsOf(call.range) :
            drawing_texture[Texel(c)] # 0

(* C5: is_block_in_rendering(block) is true exactly when one tracked range
   holds both the top-left and the bottom-right cell of the block, and it
   faults when some tracked range holds exactly one of the two. *)
C5_BlockInRendering ==
    \A block \in Regions :
        LET first == <<block.x0, block.y0>>
            last  == <<block.x1 - 1, block.y1 - 1>>
            both == \E i \in 1 .. Len(ranges_in_rendering) :
                        /\ first \in CellsOf(ranges_in_rendering[i])
                        /\ last \in CellsOf(ranges_in_rendering[i])
            one  == \E i \in 1 .. Len(ranges_in_rendering) :
                        (first \in CellsOf(ranges_in_rendering[i]))
                            # (last \in CellsOf(ranges_in_rendering[i]))
        IN  is_block_in_rendering(ranges_in_rendering, block) =
                IF one THEN "fault" ELSE IF both THEN "true" ELSE "false"

\* write_vram_block was aborted by the assert of is_block_in_rendering
C5_Witness ==
    /\ call.op = "write_vram_block"
    /\ fault
    /\ call.range \in Regions
    /\ Len(call.block) = Area(call.range)
    /\ is_block_in_rendering(ranges_in_rendering, call.range) = "fault"

(* C6: add_to_rendering_range(R) with R tracked already changes neither the
   tracked ranges nor Vram nor the render target. *)
C6_ReAdmitIsNoOp ==
    [][\A r \in Regions :
        (AdmitStep(r) /\ SeqContains(ranges_in_rendering, r))
        => /\ ranges_in_rendering' = ranges_in_rendering
           /\ vram' = vram
           /\ drawing_texture' = drawing_texture
           /\ ~fault']_vars

\* a tracked range was admitted again while the render target and Vram
\* differed on one of its cells and another range was tracked after it
C6_Witness ==
    /\ call.op = "add_to_rendering_range"
    /\ call.flag
    /\ \E c \in CellsOf(call.range) : drawing_texture[Texel(c)] # vram[Addr(c)]

\* this step is a call of Vram::write_block
VramWriteStep == call'.op = "write_block" /\ nops' = nops + 1

(* C7: write_block(R, P) with R inside the grid and P of R's size stores P so
   that read_block(R, false) returns P, and changes no element outside R. *)
C7_WriteThenRead ==
    [][\A r \in Regions :
        (VramWriteStep /\ call'.range = r /\ Len(call'.block) = Area(r))
        => /\ ~fault'
           /\ read_block(vram', r, FALSE) = call'.block
           /\ \A a \in DOMAIN vram :
                (\A c \in CellsOf(r) : Addr(c) # a) => vram'[a] = vram[a]]_vars

\* a block of two rows and two columns was written over other pixels
C7_Witness ==
    /\ call.op = "write_block"
    /\ ~fault
    /\ call.range \in Regions
    /\ XLen(call.range) >= 2 /\ YLen(call.range) >= 2
    /\ \E a \in DOMAIN vram : vram[a] # 0 /\ \A c \in CellsOf(call.range) : Addr(c) # a

(* C8: read_block(R, true) is read_block(R, false) with the order of the rows
   reversed and each row kept left to right; the array is not changed. *)
C8_ReverseReadsRowsBackwards ==
    [][\A r \in Regions :
        (call'.op = "read_block" /\ call'.range = r /\ nops' = nops + 1)
        => /\ vram' = vram
           /\ call'.flag =>
                call'.ret = RowsReversed(read_block(vram, r, FALSE), XLen(r))]_vars

\* a reversed read of two rows whose result differs from the forward read and
\* from the forward read backwards
C8_Witness ==
    /\ call.op = "read_block"
    /\ call.flag
    /\ XLen(call.range) >= 2 /\ YLen(call.range) >= 2
    /\ call.ret # read_block(vram, call.range, FALSE)
    /\ call.ret # SeqReverse(read_block(vram, call.range, FALSE))

BadLength == Len(call'.block) # Area(call'.range)

OutOfGrid == call'.range.x1 > VramWidth \/ call'.range.y1 > VramHeight

(* C9 as stated: Vram::write_block faults, with the array unchanged, whenever
   the block has the wrong length or the range leaves the grid. *)
C9_WriteBlockRejectsBadCalls ==
    [][(VramWriteStep /\ (BadLength \/ OutOfGrid)) => (fault' /\ vram' = vram)]_vars

(* C9 amended: Vram::write_block faults, with the array unchanged, whenever
   the block has the wrong length; a range that leaves the grid is rejected
   by write_vram_block, which faults before it changes anything when the
   range leaves the grid or the block has the wrong length. *)
C9_LengthAndBoundsChecks ==
    [][/\ (VramWriteStep /\ BadLength) => (fault' /\ vram' = vram)
       /\ (call'.op = "write_vram_block" /\ nops' = nops + 1 /\ (BadLength \/ OutOfGrid))
            => (/\ fault'
                /\ vram' = vram
                /\ drawing_texture' = drawing_texture
                /\ ranges_in_rendering' = ranges_in_rendering)]_vars

\* write_block was aborted for a block of the wrong length while the array
\* held pixels
C9_Witness ==
    /\ call.op = "write_block"
    /\ fault
    /\ Len(call.block) # Area(call.range)
    /\ \E a \in DOMAIN vram : vram[a] # 0

(* C10: a position word that holds x in bits 0..10 and y in bits 16..26 as
   11-bit two's complement decodes to [x, y], whatever bits 11..15 and
   27..31 hold. *)
C10_PositionRoundTrip ==
    call.op = "vertex_position_from_u32" => call.ret = <<call.block[1], call.block[2]>>

\* a negative x and the largest y decoded with all unused bits set
C10_Witness ==
    /\ call.op = "vertex_position_from_u32"
    /\ call.block = <<-1024, 1023, 31, 31>>
    /\ call.ret = <<-1024, 1023>>

\* the cells a rectangle covers when it wraps at the right and bottom edges
WrappedCells(r) ==
    {<<x % VramWidth, y % VramHeight>> : <<x, y>> \in CellsOf(r)}

\* the value the authoritative store holds for a cell
CellValue(data, tex, ranges, c) ==
    IF TrackedIn(ranges, c) THEN tex[Texel(c)] ELSE data[Addr(c)]

\* the fill colour as the authoritative store of a cell holds it
FillValue(ranges, c, color) ==
    IF TrackedIn(ranges, c) THEN ClearTexel(color)
    ELSE gl_pixel_to_u16(<<color[1], color[2], color[3], 0>>)

(* C11: a fill_color that returns, for a rectangle that passes the right or
   the bottom edge, sets to the fill colour exactly the cells
   ((x0 + i) mod 1024, (y0 + j) mod 512) and leaves every other cell as it
   was. *)
C11_FillWrapsAtEdges ==
    [][(/\ call'.op = "fill_color"
        /\ nops' = nops + 1
        /\ ~fault'
        /\ (call'.range.x1 > VramWidth \/ call'.range.y1 > VramHeight))
       => \A c \in Grid :
            CellValue(vram', drawing_texture', ranges_in_rendering, c) =
                IF c \in WrappedCells(call'.range)
                THEN FillValue(ranges_in_rendering, c, call'.block)
                ELSE CellValue(vram, drawing_texture, ranges_in_rendering, c)]_vars

\* the i-th submission consists of the draw of a polygon
IsDraw(q, i) == q[i].cmds[1].name = "draw"

(* C12: draw_polygon with textured = true faults and records no draw: the
   queue, the pending future, the status word, the tracked ranges, Vram and
   the render target are as before the call. *)
C12_TexturedDrawFaults ==
    [][(call'.op = "draw_polygon" /\ nops' = nops + 1 /\ call'.flag)
       => /\ fault'
          /\ queue' = queue
          /\ gpu_future' = gpu_future
          /\ gpu_stat' = gpu_stat
          /\ ranges_in_rendering' = ranges_in_rendering
          /\ vram' = vram
          /\ drawing_texture' = drawing_texture]_vars

\* a textured draw faulted after an untextured one was submitted and is
\* still pending
C12_Witness ==
    /\ call.op = "draw_polygon"
    /\ call.flag
    /\ fault
    /\ Len(queue) = 2
    /\ IsDraw(queue, 2)
    /\ ~Completed(queue, 2)

(* C13: the device begins a submission only after the submission made before
   it has completed; the first submission is the clear of the render target
   made by GpuContext::new. *)
C13_DeviceFollowsCallOrder ==
    /\ queue[1].cmds = <<Cmd("clear_color_image", "render_image")>>
    /\ \A i \in 2 .. Len(queue) : Started(queue, i) => Completed(queue, i - 1)

\* two draws and a blit were submitted one after the other and the device
\* has begun the last of them
C13_Witness ==
    /\ Len(queue) = 4
    /\ IsDraw(queue, 2)
    /\ IsDraw(queue, 3)
    /\ ~IsDraw(queue, 4)
    /\ Started(queue, 4)

(* C14: once blit_to_front has returned, every submission made so far has
   completed and gpu_future is a future that stands for no pending work. *)
C14_BlitReturnsWhenComplete ==
    [][(pc = "blit_to_front" /\ pc' = "idle")
       => /\ \A i \in 1 .. Len(queue') : Completed(queue', i)
          /\ gpu_future' = Future({})]_vars

\* blit_to_front has returned after two draws
C14_Witness ==
    /\ call.op = "blit_to_front"
    /\ pc = "idle"
    /\ Len(queue) = 4
    /\ IsDraw(queue, 2)
    /\ IsDraw(queue, 3)

(* C15: the device executes the copy of a blit_to_front only when every
   earlier submission has completed, the caller's future has completed and
   the clear of the destination image, recorded before the copy, has been
   executed. *)
C15_CopyAfterDrawsAndDependency ==
    [][\A i \in 1 .. Len(queue) :
        (/\ Len(queue') = Len(queue)
         /\ queue'[i].pos = queue[i].pos + 1
         /\ queue[i].cmds[queue'[i].pos].name = "blit_image")
        => /\ \A j \in 1 .. (i - 1) : Completed(queue, j)
           /\ queue[i].dep = "done"
           /\ \E k \in 1 .. queue[i].pos :
                 queue[i].cmds[k] = Cmd("clear_color_image", "dest_image")]_vars

\* the copy has been executed for a blit that was submitted after a draw,
\* and the call is still blocked
C15_Witness ==
    /\ pc = "blit_to_front"
    /\ Len(queue) = 3
    /\ IsDraw(queue, 2)
    /\ Completed(queue, 3)
    /\ waited

(* C17: read_vram_block(R), called right after a write_vram_block(R, P)
   that returned, with R inside the grid and P of R's size, returns P, row by
   row from the top, whether R is resident in the render target or not. *)
C17_WriteThenReadBlock ==
    [][\A r \in Regions :
        (/\ call.op = "write_vram_block"
         /\ call.range = r
         /\ Len(call.block) = Area(r)
         /\ call'.op = "read_vram_block"
         /\ call'.range = r
         /\ nops' = nops + 1)
        => /\ ~fault'
           /\ call'.ret = call.block]_vars

\* a block of two rows and two columns was read back from the render
\* target as it was written
C17_Witness ==
    /\ call.op = "read_vram_block"
    /\ call.flag
    /\ XLen(call.range) >= 2 /\ YLen(call.range) >= 2
    /\ call.ret = BlockOf(Area(call.range), 0)

\* the four fields of the texture page two DrawingTextureParams share
SameTexPage(p, q) ==
    /\ p.tex_page_base = q.tex_page_base
    /\ p.semi_transparency_mode = q.semi_transparency_mode
    /\ p.tex_page_color_mode = q.tex_page_color_mode
    /\ p.texture_disable = q.texture_disable

(* C18: after update_gpu_stat_from_texture_params(p), with p produced by
   tex_page_from_gpustat, tex_page_from_gpustat(gpu_stat.bits) yields the
   tex_page_base, semi_transparency_mode, tex_page_color_mode and
   texture_disable of p. *)
C18_StatusRoundTrip ==
    call.op = "update_gpu_stat_from_texture_params"
        => SameTexPage(tex_page_from_gpustat(DefaultTextureParams, gpu_stat), call.ret)

\* the fields of a 16-bit half h, computed by division
Bits(h, from, width) == (h \div (2 ^ from)) % (2 ^ width)

TexPageInRange(p) ==
    /\ p.tex_page_base[1] \in {64 * k : k \in 0 .. 15}
    /\ p.tex_page_base[2] \in {0, 256}
    /\ p.semi_transparency_mode \in 0 .. 3
    /\ p.tex_page_color_mode \in 0 .. 3
    /\ p.texture_disable \in BOOLEAN

(* C19: for every word the decoders return values inside their fields:
   positions in [-1024, 1023], texture coordinates in [0, 255], tex_page_base
   in {0, 64, .., 960} x {0, 256}, the two modes in [0, 3], and clut_base =
   [16 * (bits 16..21), bits 22..30], at most [1008, 511]. *)
C19_DecodersMaskTheirFields ==
    call.op = "decode"
        => /\ call.ret.position[1] \in (-1024) .. 1023
           /\ call.ret.position[2] \in (-1024) .. 1023
           /\ call.ret.tex_coord[1] \in 0 .. 255
           /\ call.ret.tex_coord[2] \in 0 .. 255
           /\ \A i \in 1 .. 3 : call.ret.color[i].num \in 0 .. 255
           /\ TexPageInRange(call.ret.from_stat)
           /\ TexPageInRange(call.ret.from_word)
           /\ call.ret.clut.clut_base =
                <<16 * Bits(call.block[1], 0, 6), Bits(call.block[1], 6, 9)>>
           /\ call.ret.clut.clut_base[1] <= 1008
           /\ call.ret.clut.clut_base[2] <= 511

\* the word with every bit set decodes to the largest clut_base and texture
\* page and to the position (-1, -1)
C19_Witness ==
    /\ call.op = "decode"
    /\ call.block = <<65535, 65535>>
    /\ call.ret.clut.clut_base = <<1008, 511>>
    /\ call.ret.from_word.tex_page_base = <<960, 256>>
    /\ call.ret.position = <<-1, -1>>

\* this step is a call of op
CallStep(op) == call'.op = op /\ nops' = nops + 1

\* some tracked range holds both corners of the block
Resident(ranges, block) ==
    \E i \in 1 .. Len(ranges) :
        /\ <<block.x0, block.y0>> \in CellsOf(ranges[i])
        /\ <<block.x1 - 1, block.y1 - 1>> \in CellsOf(ranges[i])

\* admitting r evicts a tracked range
Evicts(ranges, r) ==
    /\ \A i \in 1 .. Len(ranges) : ranges[i] # r
    /\ \E i \in 1 .. Len(ranges) : ~Disjoint(ranges[i], r)

(* C16 as stated: draw_polygon, fill_color and write_vram_block never wait
   for the device; a call that waits is blit_to_front, or read_vram_block of
   a resident block. *)
C16_OnlyBlitAndResidentReadWait ==
    /\ call.op \in {"draw_polygon", "fill_color", "write_vram_block"} => ~waited
    /\ waited => \/ call.op = "blit_to_front"
                 \/ call.op = "read_vram_block" /\ call.flag

(* C16 amended: draw_polygon and fill_color return without waiting for the
   device; write_vram_block waits exactly when admitting the drawing area
   evicts a tracked range, which is read back from the render target;
   read_vram_block waits exactly when the block is resident; blit_to_front
   blocks. *)
C16_WhoWaits ==
    [][/\ CallStep("draw_polygon") => (~waited' /\ pc' = "idle")
       /\ CallStep("fill_color") => (~waited' /\ pc' = "idle")
       /\ CallStep("write_vram_block")
            => /\ pc' = "idle"
               /\ waited' <=>
                    (/\ ~OutOfGrid
                     /\ ~BadLength
                     /\ Evicts(ranges_in_rendering,
                               DrawingRange(drawing_area_top_left,
                                            drawing_area_bottom_right)))
       /\ CallStep("read_vram_block")
            => /\ pc' = "idle"
               /\ waited' <=> (~fault' /\ Resident(ranges_in_rendering, call'.range))
       /\ CallStep("blit_to_front") => (waited' /\ pc' = "blit_to_front")]_vars

\* draw_polygon has returned while the submission before its own is still
\* pending, after a write_vram_block that evicted a range
C16_Witness ==
    /\ call.op = "draw_polygon"
    /\ ~fault
    /\ ~waited
    /\ pc = "idle"
    /\ Len(ranges_in_rendering) = 1
    /\ ranges_in_rendering[1] # Rng(0, 1, 0, 1)
    /\ \E i \in 1 .. (Len(queue) - 1) : ~Completed(queue, i)

(* C20: after a draw_polygon that returned, the drawing range
   (drawing_left .. drawing_right + 1, drawing_top .. drawing_bottom + 1) is
   one of the tracked ranges. *)
C20_DrawAdmitsDrawingArea ==
    (call.op = "draw_polygon" /\ ~fault)
        => SeqContains(ranges_in_rendering,
                       DrawingRange(drawing_area_top_left, drawing_area_bottom_right))

\* the texture block as the claim sizes it: rows of 64, 128 and 256 columns
\* for the colour modes 2, 1 and 0
ClaimedTextureBlock(p) ==
    LET x == p.tex_page_base[1] \div 64
        y == p.tex_page_base[2] \div 256
    IN  Rng(x * TexPageWidth,
            (x + Pow2(2 - p.tex_page_color_mode)) * TexPageWidth,
            y * TexPageHeight, (y + 1) * TexPageHeight)

(* C21: when the textured branch of draw_polygon has run, the texture block
   (64, 128 or 256 columns for colour mode 2, 1 or 0, 256 rows from
   tex_page_base) is not resident: if it was, its cells hold in Vram what
   the render target held and it is no longer among the tracked ranges. *)
C21_TextureBlockNotResident ==
    [][(/\ CallStep("draw_polygon_textured")
        /\ ~fault'
        /\ call'.ret.tex_page_color_mode \in 0 .. 2)
       => LET b == ClaimedTextureBlock(call'.ret)
          IN  /\ ~Resident(ranges_in_rendering', b)
              /\ ~SeqContains(ranges_in_rendering', b)
              /\ Resident(ranges_in_rendering, b)
                    => \A c \in CellsOf(b) :
                         vram'[Addr(c)] = drawing_texture[Texel(c)]]_vars

\* the texture page a 16-bit half h holds, laid over the params base
TexPageOf(h, base) ==
    [base EXCEPT
        !.tex_page_base = <<64 * Bits(h, 0, 4), 256 * Bits(h, 4, 1)>>,
        !.semi_transparency_mode = Bits(h, 5, 2),
        !.tex_page_color_mode = Bits(h, 7, 2),
        !.texture_disable = (Bits(h, 11, 1) = 1)]

(* C22: for every word, tex_page_from_u32 yields what tex_page_from_gpustat
   yields for the high half, whatever the low half holds; the page is X =
   64 * bits 0..3, Y = 256 * bit 4, semi-transparency = bits 5..6, colour
   mode = bits 7..8 and texture disable = one bit (bit 11) of that half;
   clut_base and texture_flip stay as they were. *)
C22_TexPageFromHighHalf ==
    call.op = "decode"
        => /\ call.ret.from_stat = TexPageOf(call.block[2], DefaultTextureParams)
           /\ call.ret.from_word = TexPageOf(call.block[1], DefaultTextureParams)
           /\ call.ret.page_kept = TexPageOf(call.block[1], PresetTextureParams)
           /\ call.ret.page_kept.clut_base = PresetTextureParams.clut_base
           /\ call.ret.page_kept.texture_flip = PresetTextureParams.texture_flip

\* a word whose high half has every bit set and whose low half has none:
\* the command form yields the last page, the status form the first
C22_Witness ==
    /\ call.op = "decode"
    /\ call.block = <<65535, 0>>
    /\ call.ret.from_word.tex_page_base = <<960, 256>>
    /\ call.ret.from_word.texture_disable
    /\ call.ret.from_stat.tex_page_base = <<0, 0>>
    /\ call.ret.page_kept.clut_base = <<1008, 511>>

\* some tracked range holds exactly one of the two corners of the block
HalfResident(ranges, block) ==
    \E i \in 1 .. Len(ranges) :
        (<<block.x0, block.y0>> \in CellsOf(ranges[i]))
            # (<<block.x1 - 1, block.y1 - 1>> \in CellsOf(ranges[i]))

\* (r, g, b) packed in 15 bits, the mask bit clear
PackedColour(color) ==
    (color[1] \div 8) + (32 * (color[2] \div 8)) + (1024 * (color[3] \div 8))

\* the rectangle lies inside the grid
InGrid(r) == r.x1 <= VramWidth /\ r.y1 <= VramHeight

\* the rectangle stops short of the right and of the bottom edge
ShortOfEdges(r) == r.x1 < VramWidth /\ r.y1 < VramHeight

\* a fill of the rectangle r writes one store: the render target, on exactly
\* r, with Vram unchanged, when r is resident; Vram, on exactly r, with the
\* render target unchanged, when it is not; nothing when r is half resident
\* (a fault); the tracked ranges are as before
WritesOneStore(r, color) ==
    /\ ranges_in_rendering' = ranges_in_rendering
    /\ IF HalfResident(ranges_in_rendering, r)
       THEN fault' /\ vram' = vram /\ drawing_texture' = drawing_texture
       ELSE IF Resident(ranges_in_rendering, r)
       THEN /\ ~fault'
            /\ vram' = vram
            /\ \A c \in Grid :
                  drawing_texture'[Texel(c)] =
                     IF c \in CellsOf(r) THEN ClearTexel(color)
                     ELSE drawing_texture[Texel(c)]
       ELSE /\ ~fault'
            /\ drawing_texture' = drawing_texture
            /\ \A a \in DOMAIN vram :
                  vram'[a] =
                     IF \E c \in CellsOf(r) : Addr(c) = a
                     THEN PackedColour(color) ELSE vram[a]

(* C23: a fill_color that returns, for a rectangle inside the grid that is
   not half resident, writes
   one store: when the rectangle is resident Vram is unchanged and the texels
   it changes hold the cleared colour; when it is not, the render target is
   unchanged and the cells it changes hold the packed 15-bit colour (mask bit
   0); the tracked ranges are unchanged. *)
C23_FillWritesOneStore ==
    [][(/\ CallStep("fill_color")
        /\ InGrid(call'.range)
        /\ ~HalfResident(ranges_in_rendering, call'.range)
        /\ ~fault')
       => /\ ranges_in_rendering' = ranges_in_rendering
          /\ \A c \in Grid :
                /\ vram'[Addr(c)] \in {vram[Addr(c)], PackedColour(call'.block)}
                /\ drawing_texture'[Texel(c)] \in
                        {drawing_texture[Texel(c)], ClearTexel(call'.block)}
          /\ IF Resident(ranges_in_rendering, call'.range)
             THEN vram' = vram
             ELSE drawing_texture' = drawing_texture]_vars

(* C23 for the rectangles the code does not split: the same statement for a
   rectangle that stops short of both edges; and whatever the rectangle, a
   cell fill_color changes in Vram holds the packed colour, a texel it
   changes the cleared colour. *)
C23_ShortOfEdges ==
    [][CallStep("fill_color")
       => /\ ranges_in_rendering' = ranges_in_rendering
          /\ \A c \in Grid :
                /\ vram'[Addr(c)] \in {vram[Addr(c)], PackedColour(call'.block)}
                /\ drawing_texture'[Texel(c)] \in
                        {drawing_texture[Texel(c)], ClearTexel(call'.block)}
          /\ ShortOfEdges(call'.range)
                => WritesOneStore(call'.range, call'.block)]_vars

\* the activations frames[i] calls directly
Callees(frames, i) ==
    {j \in (i + 1) .. Len(frames) :
        /\ frames[j].level = frames[i].level + 1
        /\ \A k \in (i + 1) .. j : frames[k].level > frames[i].level}

\* the number of axes on which the rectangle of an activation reaches the edge
OverflowingAxes(f) ==
    (IF f.top_left[1] + f.size[1] >= VramWidth THEN 1 ELSE 0)
        + (IF f.top_left[2] + f.size[2] >= VramHeight THEN 1 ELSE 0)

\* the sum of the two range ends of an activation
RangeEnds(f) == f.top_left[1] + f.size[1] + f.top_left[2] + f.size[2]

(* C24: fill_color with top_left inside the grid terminates: an activation
   calls fill_color once for each axis on which its rectangle reaches the
   edge and not otherwise, every such call is for a rectangle whose range
   ends add up to less than the caller's, and so no activation lies deeper
   than the range ends of the first add up to. *)
C24_FillTerminates ==
    call.op = "fill_color"
        => \A i \in 1 .. Len(call.ret) :
             /\ ~call.ret[i].cut
             /\ call.ret[i].level <= RangeEnds(call.ret[1])
             /\ Cardinality(Callees(call.ret, i)) = OverflowingAxes(call.ret[i])
             /\ \A j \in Callees(call.ret, i) :
                   /\ RangeEnds(call.ret[j]) < RangeEnds(call.ret[i])
                   /\ RangeEnds(call.ret[j]) >= 0

\* a call whose rectangle passes both edges so far that an activation three
\* levels down still reaches an edge
C24_Witness ==
    /\ call.op = "fill_color"
    /\ OverflowingAxes(call.ret[1]) = 2
    /\ \E i \in 1 .. Len(call.ret) :
          call.ret[i].level >= 3 /\ OverflowingAxes(call.ret[i]) >= 1

\* a blending factor in quarters, for a source alpha of a4 quarters
Factor4(factor, a4) ==
    CASE factor = "One" -> 4
      [] factor = "SourceAlpha" -> a4
      [] factor = "OneMinusSourceAlpha" -> 4 - a4

\* four times the colour a blending function writes for source colour s and
\* destination colour d
Blended4(f, s, d, a4) ==
    CASE f.func = "Addition" ->
            (s * Factor4(f.source, a4)) + (d * Factor4(f.destination, a4))
      [] f.func = "ReverseSubtraction" ->
            (d * Factor4(f.destination, a4)) - (s * Factor4(f.source, a4))

ColourLevels == 0 .. 3

AlphaQuarters == 0 .. 4

\* C25: get_semi_transparency_blending_params maps the mode modulo 4 to a
\* colour blend equation: modes 0 and 3 give src*a + dst*(1-a), mode 1 is an
\* addition of a source and a destination term, mode 2 is a reverse
\* subtraction (destination term minus source term), the source term being
\* the source colour itself; the alpha equation is always "AlwaysReplace".
C25_BlendOfMode ==
    call.op = "get_semi_transparency_blending_params" =>
        LET m == call.block[1] % 4
            b == call.ret
        IN  /\ b.alpha = "AlwaysReplace"
            /\ m = 1 => b.color.func = "Addition"
            /\ m = 2 => b.color.func = "ReverseSubtraction"
            /\ \A s \in ColourLevels : \A d \in ColourLevels : \A a4 \in AlphaQuarters :
                  CASE m \in {0, 3} ->
                          Blended4(b.color, s, d, a4) = (s * a4) + (d * (4 - a4))
                    [] m = 1 ->
                          Blended4(b.color, s, d, a4) = (4 * s) + (d * a4)
                    [] m = 2 ->
                          Blended4(b.color, s, d, a4) = (d * a4) - (4 * s)

\* C25 witness: a mode above 3 whose low two bits select reverse subtraction
C25_Witness ==
    /\ call.op = "get_semi_transparency_blending_params"
    /\ call.block[1] > 3
    /\ call.block[1] % 4 = 2
    /\ call.ret.color.func = "ReverseSubtraction"

\* the step is a call of draw_polygon with textured = false
UntexturedDraw == CallStep("draw_polygon") /\ ~call'.flag /\ call'.block[1] \in {3, 4}

\* right >= left and bottom >= top: neither extent of the drawing area wraps
AreaOrdered(top_left, bottom_right) ==
    /\ bottom_right[1] >= top_left[1]
    /\ bottom_right[2] >= top_left[2]

(* C28: draw_polygon with textured = false and 3 or 4 vertices raises no
   fault whatever the drawing-area fields hold, neither of the two extents
   bottom - top + 1 and right - left + 1 underflows, and a blit_to_front that
   follows raises no fault. *)
C28_UntexturedDrawNeverFaults ==
    [][/\ UntexturedDraw =>
            /\ ~fault'
            /\ AreaOrdered(drawing_area_top_left, drawing_area_bottom_right)
       /\ CallStep("blit_to_front") => ~fault']_vars

\* the float of a small integer
F32(i) == [m |-> i, scale |-> 1]

\* the triangles, as sets of vertex indices, that a draw of n vertices
\* assembles under a primitive topology
Triangles(topology, n) ==
    CASE topology = "triangle_list" ->
            {{3 * i, (3 * i) + 1, (3 * i) + 2} : i \in 0 .. ((n \div 3) - 1)}
      [] topology = "triangle_strip" ->
            {{i, i + 1, i + 2} : i \in 0 .. (n - 3)}
      [] topology = "triangle_fan" ->
            {{0, i + 1, i + 2} : i \in 0 .. (n - 3)}

\* the render pass of the submission the step has appended
DrawSubmitted == queue'[Len(queue')].cmds[1].arg

(* C26: every draw submitted by draw_polygon has the viewport of the drawing
   area at the time of the call, origin (left, top) and dimensions
   (right - left + 1, bottom - top + 1), and draws vertices.len() vertices
   as a triangle strip: 4 vertices give the triangles (0,1,2) and (1,2,3). *)
C26_ViewportIsDrawingArea ==
    [][(UntexturedDraw /\ ~fault') =>
        /\ Len(queue') = Len(queue) + 1
        /\ DrawSubmitted.viewport.origin =
              <<F32(drawing_area_top_left[1]), F32(drawing_area_top_left[2])>>
        /\ DrawSubmitted.viewport.dimensions =
              <<F32((drawing_area_bottom_right[1] - drawing_area_top_left[1]) + 1),
                F32((drawing_area_bottom_right[2] - drawing_area_top_left[2]) + 1)>>
        /\ DrawSubmitted.vertex_count = call'.block[1]
        /\ call'.block[1] = 4 =>
              Triangles(DrawSubmitted.pipeline.topology, DrawSubmitted.vertex_count)
                  = {{0, 1, 2}, {1, 2, 3}}]_vars

\* C26, the vertices alone: every draw covers vertices.len() vertices as a
\* triangle strip, one triangle for 3 vertices and (0,1,2), (1,2,3) for 4
C26_TriangleStrip ==
    [][(UntexturedDraw /\ ~fault') =>
        /\ DrawSubmitted.vertex_count = call'.block[1]
        /\ DrawSubmitted.pipeline.topology = "triangle_strip"
        /\ Triangles(DrawSubmitted.pipeline.topology, DrawSubmitted.vertex_count)
              = IF call'.block[1] = 3 THEN {{0, 1, 2}} ELSE {{0, 1, 2}, {1, 2, 3}}]_vars

\* C26, ordered corners: when right >= left and bottom >= top the viewport
\* is the drawing area
C26_ViewportWhenOrdered ==
    [][(/\ UntexturedDraw
        /\ ~fault'
        /\ AreaOrdered(drawing_area_top_left, drawing_area_bottom_right)) =>
        /\ DrawSubmitted.viewport.origin =
              <<F32(drawing_area_top_left[1]), F32(drawing_area_top_left[2])>>
        /\ DrawSubmitted.viewport.dimensions =
              <<F32((drawing_area_bottom_right[1] - drawing_area_top_left[1]) + 1),
                F32((drawing_area_bottom_right[2] - drawing_area_top_left[2]) + 1)>>]_vars

\* the future of the submissions `after` stands for the completion of the
\* i-th submission: it is one of them, or one they were chained after
RECURSIVE Covers(_, _, _)
Covers(q, after, i) ==
    \/ i \in after
    \/ \E j \in after : Covers(q, q[j].after, i)

(* C27: gpu_future is Some whenever no call is in progress, from new() on, so
   the unwrap of gpu_future in draw_polygon and blit_to_front finds a
   handle; a submission is chained after the handle it replaces, and the
   handle held between calls covers every submission that is not complete. *)
C27_OneHandleBetweenCalls ==
    /\ gpu_future.some
    /\ [][/\ pc' = "idle" => gpu_future'.some
          /\ (CallStep("draw_polygon") \/ CallStep("blit_to_front")) => gpu_future.some
          /\ Len(queue') = Len(queue) + 1 =>
                queue'[Len(queue')].after = gpu_future.after
          /\ (CallStep("draw_polygon") /\ ~fault') =>
                gpu_future' = Future({Len(queue')})
          /\ pc' = "idle" =>
                \A i \in 1 .. Len(queue') :
                    ~Completed(queue', i) => Covers(queue', gpu_future'.after, i)]_vars

\* C27 witness: a draw made after a blit_to_front that returned, itself made
\* after a draw; the handle is the last draw's, chained after sync::now()
C27_Witness ==
    /\ call.op = "draw_polygon"
    /\ ~fault
    /\ Len(queue) = 4
    /\ IsDraw(queue, 2)
    /\ ~IsDraw(queue, 3)
    /\ queue[3].cmds[2].name = "blit_image"
    /\ gpu_future = Future({4})
    /\ queue[4].after = {}
    /\ ~Completed(queue, 4)

(* C29: whenever is_block_in_rendering(block) is false, no cell of the block
   lies inside a tracked region, so the Vram path taken on that answer never
   touches a cell whose authoritative copy is in the render target. *)
C29_NotResidentMeansUntracked ==
    \A block \in Regions :
        is_block_in_rendering(ranges_in_rendering, block) = "false" =>
            \A c \in CellsOf(block) : ~TrackedIn(ranges_in_rendering, c)

\* the step is a call of update_gpu_stat_from_texture_params
StatUpdateStep ==
    /\ call'.op = "update_gpu_stat_from_texture_params"
    /\ call.op # "update_gpu_stat_from_texture_params"

\* !0x81FF
OutsideTexPageMask == U32(65535, 32256)

(* C30: update_gpu_stat_from_texture_params leaves every bit of gpu_stat
   outside the mask 0x81FF (bits 0..8 and bit 15) as it was, for every params
   the decoders return, and changes no other field. *)
C30_OnlyTexPageBitsChange ==
    [][StatUpdateStep =>
        /\ And32(gpu_stat', OutsideTexPageMask) = And32(gpu_stat, OutsideTexPageMask)
        /\ UNCHANGED <<vram, drawing_texture, ranges_in_rendering,
                       drawing_area_top_left, drawing_area_bottom_right,
                   vram_display_area_start,
                       gpu_future, queue, fault>>]_vars

\* C30 witness: the call has cleared and set bits inside the mask of a status
\* word whose bits were all ones, and the bits outside the mask are still ones
C30_Witness ==
    /\ call.op = "update_gpu_stat_from_texture_params"
    /\ call.block[1] = 0
    /\ gpu_stat = U32(65535, 32256)

\* the source rectangle of the copy the step has submitted: its origin and
\* its size, from the two corners given to blit_image
BlitSubmitted == queue'[Len(queue')].cmds[2].arg

SourceOrigin(b) == <<b.source_top_left[1], b.source_top_left[2]>>

SourceSize(b) ==
    <<b.source_bottom_right[1] - b.source_top_left[1],
      b.source_bottom_right[2] - b.source_top_left[2]>>

\* the fields of the emulated GPU
EmulatedState ==
    <<vram, drawing_texture, ranges_in_rendering, gpu_stat, drawing_area_top_left,
      drawing_area_bottom_right, vram_display_area_start>>

\* the step belongs to a call of blit_to_front: the submission, or the
\* return from the wait
BlitStep == CallStep("blit_to_front") \/ (pc = "blit_to_front" /\ pc' = "idle")

(* C31: blit_to_front changes no emulated GPU state (Vram, tracked ranges,
   render target, status bits, drawing-area and display fields), only the
   pending handle and the destination image; the source rectangle it copies
   is the whole surface at (0,0) when full_vram is true, and otherwise the
   rectangle at vram_display_area_start of size horizontal_resolution x
   vertical_resolution. *)
C31_BlitFrameAndSource ==
    [][/\ BlitStep => UNCHANGED EmulatedState
       /\ (CallStep("blit_to_front") /\ ~fault') =>
            /\ SourceOrigin(BlitSubmitted) =
                  IF call'.flag THEN <<0, 0>> ELSE vram_display_area_start
            /\ SourceSize(BlitSubmitted) =
                  IF call'.flag THEN <<VramWidth, VramHeight>> ELSE call'.block]_vars

\* C31, the frame alone: a call of blit_to_front changes no emulated GPU
\* state, from its submission to its return
C31_BlitFrame ==
    [][BlitStep => UNCHANGED EmulatedState]_vars

\* C31, the source when full_vram is true or the display area starts at
\* (0,0): the rectangle copied is the one the claim gives
C31_SourceFromOrigin ==
    [][(/\ CallStep("blit_to_front")
        /\ ~fault'
        /\ call'.flag \/ vram_display_area_start = <<0, 0>>) =>
            /\ SourceOrigin(BlitSubmitted) =
                  IF call'.flag THEN <<0, 0>> ELSE vram_display_area_start
            /\ SourceSize(BlitSubmitted) =
                  IF call'.flag THEN <<VramWidth, VramHeight>> ELSE call'.block]_vars

====
